---- MODULE Spec2Model ----
(***************************************************************************)
(* Model of the hybrid retrieval core of rotom-dex:                        *)
(*   src/chatbot/retrieval.py  (KnowledgeBaseRetriever)                    *)
(*                                                                         *)
(* Strings are sequences of one-character strings, so that lower-casing,   *)
(* tokenising, substring search and indexing are computed and not assumed. *)
(* Floats are exact rationals <<numerator, denominator>> (denominator > 0, *)
(* lowest terms); rounding is not modelled.                                *)
(***************************************************************************)
EXTENDS Integers, Sequences, FiniteSets, TLC

(***************************************************************************)
(* Bounds of the model.                                                    *)
(***************************************************************************)
MaxLimit == 2
MaxTopK == 2
MaxDocs == 2
MaxDist == 1
MaxBm25 == 1
AlphaDen == 2

(***************************************************************************)
(* Characters and strings.                                                 *)
(***************************************************************************)
UpperChars == <<"A","B","C","D","E","F","G","H","I","J","K","L","M",
                "N","O","P","Q","R","S","T","U","V","W","X","Y","Z">>
LowerChars == <<"a","b","c","d","e","f","g","h","i","j","k","l","m",
                "n","o","p","q","r","s","t","u","v","w","x","y","z">>
DigitChars == <<"0","1","2","3","4","5","6","7","8","9">>

Range(s) == {s[i] : i \in DOMAIN s}

\* str.lower() on one character
LowerChar(c) ==
    IF c \in Range(UpperChars)
    THEN LowerChars[CHOOSE i \in DOMAIN UpperChars : UpperChars[i] = c]
    ELSE c

\* str.lower()
Lower(s) == [i \in DOMAIN s |-> LowerChar(s[i])]

\* the regex class \w
IsWordChar(c) ==
    c \in Range(UpperChars) \cup Range(LowerChars) \cup Range(DigitChars) \cup {"_"}

RECURSIVE FindAll(_, _, _, _)
\* re.findall(r"\w+", s): the maximal runs of word characters, left to right
FindAll(s, i, cur, acc) ==
    IF i > Len(s)
    THEN IF cur = <<>> THEN acc ELSE Append(acc, cur)
    ELSE IF IsWordChar(s[i])
         THEN FindAll(s, i + 1, Append(cur, s[i]), acc)
         ELSE FindAll(s, i + 1, <<>>, IF cur = <<>> THEN acc ELSE Append(acc, cur))

_tokenize(text) == FindAll(Lower(text), 1, <<>>, <<>>)

RECURSIVE FindFrom(_, _, _)
\* the search behind Python's `needle in hay`: try every offset in turn
FindFrom(needle, hay, off) ==
    IF off + Len(needle) - 1 > Len(hay)
    THEN FALSE
    ELSE IF SubSeq(hay, off, off + Len(needle) - 1) = needle
         THEN TRUE
         ELSE FindFrom(needle, hay, off + 1)

Contains(needle, hay) == FindFrom(needle, hay, 1)

RECURSIVE Digits(_)
Digits(n) == IF n < 10 THEN <<DigitChars[n + 1]>>
             ELSE Digits(n \div 10) \o <<DigitChars[(n % 10) + 1]>>

(***************************************************************************)
(* Metadata and filter values: str, int and bool scalars, and lists.       *)
(***************************************************************************)
StrV(s) == [k |-> "str", s |-> s]
IntV(n) == [k |-> "int", n |-> n]
BoolV(b) == [k |-> "bool", b |-> b]
ListV(l) == [k |-> "list", l |-> l]

\* str(value)
Str(v) ==
    CASE v.k = "str" -> v.s
      [] v.k = "int" -> IF v.n < 0 THEN <<"-">> \o Digits(0 - v.n) ELSE Digits(v.n)
      [] v.k = "bool" -> IF v.b THEN <<"T","r","u","e">> ELSE <<"F","a","l","s","e">>

\* Optional[Dict]: None, or a dict given as a function from keys to values
None == [isNone |-> TRUE]
Dict(m) == [isNone |-> FALSE, items |-> m]
EmptyMap == [x \in {} |-> 0]

\* Python truthiness of an Optional[Dict]: `not filters`
IsFalsy(filters) == filters.isNone \/ DOMAIN filters.items = {}

(***************************************************************************)
(* Rationals.                                                              *)
(***************************************************************************)
Abs(n) == IF n < 0 THEN 0 - n ELSE n

RECURSIVE GCD(_, _)
GCD(a, b) == IF b = 0 THEN a ELSE GCD(b, a % b)

Rat(n, d) ==
    LET g == GCD(Abs(n), Abs(d))
        s == IF d < 0 THEN 0 - 1 ELSE 1
    IN  <<(s * n) \div g, (s * d) \div g>>

RInt(n) == <<n, 1>>
RZero == RInt(0)
ROne == RInt(1)
RAdd(x, y) == Rat(x[1] * y[2] + y[1] * x[2], x[2] * y[2])
RSub(x, y) == Rat(x[1] * y[2] - y[1] * x[2], x[2] * y[2])
RMul(x, y) == Rat(x[1] * y[1], x[2] * y[2])
RDiv(x, y) == Rat(x[1] * y[2], x[2] * y[1])
RLt(x, y) == x[1] * y[2] < y[1] * x[2]
RLe(x, y) == x[1] * y[2] <= y[1] * x[2]
RMax(S) == CHOOSE x \in S : \A y \in S : RLe(y, x)

(***************************************************************************)
(* The corpus snapshot and the vector store's content.                     *)
(***************************************************************************)
T_fire == <<"F","i","r","e"," ","t","y","p","e">>
T_water == <<"w","a","t","e","r">>
T_zap == <<"z","a","p">>
K_chunk == <<"c","h","u","n","k">>

DocA == [text |-> T_fire,
         metadata |-> ("type" :> StrV(<<"F","i","r","e">>)) @@ ("gen" :> IntV(1))]
DocB == [text |-> T_water,
         metadata |-> ("type" :> StrV(<<"W","a","t","e","r">>))]

\* the documents_map after construction: no snapshot, or the snapshot a, b
Corpora == { EmptyMap, ("a" :> DocA) @@ ("b" :> DocB) }

\* dict insertion order of the snapshot
KeysInOrder(map) == IF DOMAIN map = {} THEN <<>> ELSE <<"a", "b">>

\* ids the vector store holds; "c" is in no local snapshot
StoreIds == {"a", "b", "c"}
StoreText == [i \in StoreIds |->
                 CASE i = "a" -> K_chunk [] i = "b" -> T_water [] i = "c" -> T_zap]
StoreMeta == [i \in StoreIds |->
                 CASE i = "a" -> ("type" :> StrV(<<"F","i","r","e">>))
                   [] i = "b" -> ("type" :> StrV(<<"W","a","t","e","r">>))
                   [] i = "c" -> ("type" :> StrV(<<"E","l","e","c">>))]

Queries == { <<"!","?">>, <<"F","i","r","e","!">> }
Limits == 1..MaxLimit
Alphas == { Rat(n, AlphaDen) : n \in 0..AlphaDen }
FilterSet ==
    { None,
      Dict("type" :> StrV(<<"f","i","r","e">>)),
      Dict("type" :> ListV(<<StrV(<<"W","A","T">>), StrV(<<"x">>)>>)) }

Distances == 0..MaxDist
Bm25Values == (0 - 1)..MaxBm25

Min(a, b) == IF a < b THEN a ELSE b

\* what collection.query can return for n_results: at most n_results distinct
\* ids of the store, in the store's order, each with a distance; documents and
\* metadatas are the store's, positionally aligned
QueryResponses(n) ==
    UNION { UNION { { [ids |-> s,
                       documents |-> [i \in 1..m |-> StoreText[s[i]]],
                       metadatas |-> [i \in 1..m |-> StoreMeta[s[i]]],
                       distances |-> d] : d \in [1..m -> Distances] }
                    : s \in { t \in [1..m -> StoreIds] :
                                \A i, j \in 1..m : i /= j => t[i] /= t[j] } }
            : m \in 0..Min(n, Cardinality(StoreIds)) }

\* what collection.get(ids=[doc_id]) returns: flat lists, one entry per id
\* (spec section 6: { documents: [string], metadatas: [map] })
GetResponses(doc_id) ==
    { [documents |-> <<t>>, metadatas |-> <<StoreMeta[doc_id]>>]
        : t \in {StoreText[doc_id], <<>>} }

\* what BM25Okapi.get_scores returns: one score per corpus document, in corpus
\* order; a query without tokens scores every document 0
GetScoresResponses(tokens, n) ==
    IF tokens = <<>> THEN { [i \in 1..n |-> 0] }
    ELSE [1..n -> Bm25Values]

(***************************************************************************)
(* SimpleVectorIndex (analysis/vector_index.py).  Weights are exact        *)
(* rationals; a square root is kept as the number under the root, and a    *)
(* cosine as the dot product and the two norms it is divided by.  math.log *)
(* is taken to the nearest third.                                          *)
(***************************************************************************)
\* TOKEN_PATTERN [a-z0-9]+ with IGNORECASE
IsTokenChar(c) ==
    c \in Range(UpperChars) \cup Range(LowerChars) \cup Range(DigitChars)

RECURSIVE TokenFindAll(_, _, _, _)
\* TOKEN_PATTERN.findall(text)
TokenFindAll(s, i, cur, acc) ==
    IF i > Len(s)
    THEN IF cur = <<>> THEN acc ELSE Append(acc, cur)
    ELSE IF IsTokenChar(s[i])
         THEN TokenFindAll(s, i + 1, Append(cur, s[i]), acc)
         ELSE TokenFindAll(s, i + 1, <<>>, IF cur = <<>> THEN acc ELSE Append(acc, cur))

_tokenise(text) ==
    LET found == TokenFindAll(text, 1, <<>>, <<>>)
    IN  [i \in DOMAIN found |-> Lower(found[i])]

\* Counter(tokens)[token]
Count(tokens, token) == Cardinality({ i \in DOMAIN tokens : tokens[i] = token })

\* round(3 * ln(n / d)) for 1 <= d <= n <= 7, as LogThirds[n][d]
LogThirds == << <<0>>, <<2, 0>>, <<3, 1, 0>>, <<4, 2, 1, 0>>, <<5, 3, 2, 1, 0>>,
                <<5, 3, 2, 1, 1, 0>>, <<6, 4, 3, 2, 1, 0, 0>> >>

\* math.log((1 + num_docs) / (1 + df)) + 1.0
Idf(num_docs, df) == RAdd(Rat(LogThirds[1 + num_docs][1 + df], 3), ROne)

\* math.sqrt(x), kept as the number under the root
Sqrt(x) == [sq |-> x]

RECURSIVE RSum(_, _)
\* the sum of f[k] over the keys k
RSum(f, keys) ==
    IF keys = {} THEN RZero
    ELSE LET k == CHOOSE x \in keys : TRUE IN RAdd(f[k], RSum(f, keys \ {k}))

RECURSIVE Vocab(_, _)
\* lines 35-41: each new token gets the next index, in order of first sight
Vocab(all_tokens, n) ==
    IF n = 0 THEN EmptyMap
    ELSE LET vocab == Vocab(all_tokens, n - 1)
             token == all_tokens[n]
         IN  IF token \in DOMAIN vocab THEN vocab
             ELSE [t \in DOMAIN vocab \cup {token} |->
                      IF t = token THEN Cardinality(DOMAIN vocab) ELSE vocab[t]]

RECURSIVE Concat(_, _)
Concat(seqs, n) == IF n = 0 THEN <<>> ELSE Concat(seqs, n - 1) \o seqs[n]

\* lines 100-110 and 59-67: the weights of the tokens the vocabulary knows
Weights(tokens, vocab_index, idf) ==
    LET known == { t \in Range(tokens) : t \in DOMAIN vocab_index }
    IN  [idx \in { vocab_index[t] : t \in known } |->
            LET token == CHOOSE t \in known : vocab_index[t] = idx
            IN  RMul(Rat(Count(tokens, token), Len(tokens)), idf[idx])]

\* the sum of the squared weights
SquareSum(vector) ==
    RSum([idx \in DOMAIN vector |-> RMul(vector[idx], vector[idx])], DOMAIN vector)

\* SimpleVectorIndex.from_documents; documents is the dict as its item list
from_documents(documents) ==
    LET tokens_per_doc == [i \in DOMAIN documents |-> _tokenise(documents[i].text)]
        all_tokens == Concat(tokens_per_doc, Len(tokens_per_doc))
        vocab == Vocab(all_tokens, Len(all_tokens))
        num_docs == Len(documents)
        df(token) == Cardinality({ i \in DOMAIN documents :
                                     token \in Range(tokens_per_doc[i]) })
        idf == [idx \in { vocab[t] : t \in DOMAIN vocab } |->
                   Idf(num_docs, df(CHOOSE t \in DOMAIN vocab : vocab[t] = idx))]
        vectors == [i \in DOMAIN documents |->
                       IF tokens_per_doc[i] = <<>> THEN EmptyMap
                       ELSE Weights(tokens_per_doc[i], vocab, idf)]
    IN  [doc_ids |-> [i \in DOMAIN documents |-> documents[i].id],
         doc_vectors |-> vectors,
         vocab_index |-> vocab,
         idf |-> idf,
         doc_norms |-> [i \in DOMAIN documents |->
                           IF tokens_per_doc[i] = <<>> THEN Sqrt(RZero)
                           ELSE Sqrt(SquareSum(vectors[i]))]]

\* dot / (norm * query_norm), kept as its three operands
Cosine(dot, norm, query_norm) == [dot |-> dot, norm |-> norm, query_norm |-> query_norm]
\* 0.0
Score0 == Cosine(RZero, Sqrt(ROne), Sqrt(ROne))
\* the square of a score: (dot / norm^2) * (dot / query_norm^2)
Squared(s) == RMul(RDiv(s.dot, s.norm.sq), RDiv(s.dot, s.query_norm.sq))
\* a < b and a = b for two scores, neither negative
ScoreLt(a, b) == RLt(Squared(a), Squared(b))
ScoreEq(a, b) == Squared(a) = Squared(b)

\* a variant that puts an equal score before the ones already there
InsertByScore_unstable(sorted, e) ==
    LET before == { i \in DOMAIN sorted : ScoreLt(e.score, sorted[i].score) }
        n == Cardinality(before)
    IN  SubSeq(sorted, 1, n) \o <<e>> \o SubSeq(sorted, n + 1, Len(sorted))

\* list.insert keeping a descending list descending and equal scores in order
InsertByScore(sorted, e) ==
    LET before == { i \in DOMAIN sorted : ~ ScoreLt(sorted[i].score, e.score) }
        n == Cardinality(before)
    IN  SubSeq(sorted, 1, n) \o <<e>> \o SubSeq(sorted, n + 1, Len(sorted))

RECURSIVE SortByScore(_)
\* scores.sort(key=lambda item: item[1], reverse=True): stable
SortByScore(items) ==
    IF items = <<>> THEN <<>>
    ELSE InsertByScore(SortByScore(SubSeq(items, 1, Len(items) - 1)), items[Len(items)])

\* a variant that does not cut the list
Slice_uncut(items, top_k) == items

\* scores[:top_k] for top_k >= 0
Slice(items, top_k) == SubSeq(items, 1, IF top_k < Len(items) THEN top_k ELSE Len(items))

\* a variant that does not divide by the document's norm
DocScores_nonorm(ix, query_vector, query_norm) ==
    [i \in DOMAIN ix.doc_ids |->
        IF ix.doc_norms[i].sq = RZero
        THEN [id |-> ix.doc_ids[i], score |-> Score0]
        ELSE LET vector == ix.doc_vectors[i]
                 dot == RSum([idx \in DOMAIN query_vector |->
                                 RMul(query_vector[idx],
                                      IF idx \in DOMAIN vector THEN vector[idx] ELSE RZero)],
                             DOMAIN query_vector)
             IN  [id |-> ix.doc_ids[i],
                  score |-> Cosine(dot, Sqrt(ROne), query_norm)]]

\* a variant that skips the documents whose norm is zero
DocScores_skips_zero_norm(ix, query_vector, query_norm) ==
    LET kept == SelectSeq([i \in DOMAIN ix.doc_ids |-> i],
                          LAMBDA i : ix.doc_norms[i].sq /= RZero)
    IN  [k \in DOMAIN kept |->
            LET vector == ix.doc_vectors[kept[k]]
                dot == RSum([idx \in DOMAIN query_vector |->
                                RMul(query_vector[idx],
                                     IF idx \in DOMAIN vector THEN vector[idx] ELSE RZero)],
                            DOMAIN query_vector)
            IN  [id |-> ix.doc_ids[kept[k]],
                 score |-> Cosine(dot, ix.doc_norms[kept[k]], query_norm)]]

\* lines 116-125: one (doc_id, score) per document, in corpus order
DocScores(ix, query_vector, query_norm) ==
    [i \in DOMAIN ix.doc_ids |->
        IF ix.doc_norms[i].sq = RZero
        THEN [id |-> ix.doc_ids[i], score |-> Score0]
        ELSE LET vector == ix.doc_vectors[i]
                 dot == RSum([idx \in DOMAIN query_vector |->
                                 RMul(query_vector[idx],
                                      IF idx \in DOMAIN vector THEN vector[idx] ELSE RZero)],
                             DOMAIN query_vector)
             IN  [id |-> ix.doc_ids[i],
                  score |-> Cosine(dot, ix.doc_norms[i], query_norm)]]

\* a variant that scores every document 0.0 for a query without a known token
search_unguarded(ix, q, top_k) ==
    LET tokens == _tokenise(q) IN
    IF tokens = <<>> THEN <<>>
    ELSE LET query_vector == Weights(tokens, ix.vocab_index, ix.idf)
             query_norm == Sqrt(SquareSum(query_vector))
         IN  IF query_norm.sq = RZero
             THEN Slice([i \in DOMAIN ix.doc_ids |->
                            [id |-> ix.doc_ids[i], score |-> Score0]], top_k)
             ELSE Slice(SortByScore(DocScores(ix, query_vector, query_norm)), top_k)

\* SimpleVectorIndex.search
search(ix, q, top_k) ==
    LET tokens == _tokenise(q) IN
    IF tokens = <<>> THEN <<>>
    ELSE LET query_vector == Weights(tokens, ix.vocab_index, ix.idf)
             query_norm == Sqrt(SquareSum(query_vector))
         IN  IF query_norm.sq = RZero THEN <<>>
             ELSE Slice(SortByScore(DocScores(ix, query_vector, query_norm)), top_k)

(***************************************************************************)
(* State.                                                                  *)
(***************************************************************************)
VARIABLES
    documents_map,     \* self._documents_map: id -> [text, metadata]
    bm25,              \* self._bm25 is not None
    bm25_ids,          \* self._bm25_ids
    pc,                \* position of the hybrid_search call
    query, limit, filters, alpha,   \* arguments of the call
    semantic_results,  \* list returned by semantic_search
    scores,            \* dict id -> semantic score, as its item list
    bm25_scores,       \* dict returned by _bm25_rank
    combined,          \* list of (id, final_score) after the sort
    ranked,            \* the list cut to limit, handed to _result_from_id
    results,           \* the RetrievalResults built so far
    outcome,           \* "none", "ok" or the exception that ended the call
    query_calls,       \* calls of collection.query in this call
    get_calls,         \* ids passed to collection.get in this call
    score_calls,       \* calls of BM25Okapi.get_scores in this call
    probe,             \* arguments and result of a call of a pure method
    documents,         \* the dict from_documents was given, as its item list
    index,             \* the SimpleVectorIndex: doc_ids, doc_vectors,
                       \* vocab_index, idf, doc_norms
    max_messages,      \* ConversationMemory.max_messages
    _messages,         \* ConversationMemory._messages: session -> history
    _lock,             \* ConversationMemory._lock: its holder, or "free"
    threads,           \* per thread: the call it runs, its position, its locals
    appended           \* per session: what was appended since the last clear

retriever == <<documents_map, bm25, bm25_ids>>
locals == <<semantic_results, scores, bm25_scores, combined, ranked, results>>
args == <<query, limit, filters, alpha>>
calls == <<query_calls, get_calls, score_calls>>
built == <<documents, index>>
service == <<max_messages, _messages, _lock, threads, appended>>
vars == <<documents_map, bm25, bm25_ids, pc, query, limit, filters, alpha,
          semantic_results, scores, bm25_scores, combined, ranked, results,
          outcome, query_calls, get_calls, score_calls, probe, documents, index,
          max_messages, _messages, _lock, threads, appended>>

(***************************************************************************)
(* Pure helpers of KnowledgeBaseRetriever.                                 *)
(***************************************************************************)
_distance_to_score(distance) == RDiv(ROne, RAdd(ROne, RInt(distance)))

\* a variant that hands the caller's filter to the store as it is
_format_filters_untranslated(f) ==
    IF IsFalsy(f) THEN EmptyMap ELSE f.items

_format_filters(f) ==
    IF IsFalsy(f) THEN EmptyMap
    ELSE [key \in DOMAIN f.items |->
             IF f.items[key].k = "list"
             THEN [k |-> "in", l |-> f.items[key].l]
             ELSE f.items[key]]

\* a variant that lets a document without the filtered key pass
KeyMatches_failopen(metadata, key, expected) ==
    IF key \notin DOMAIN metadata
    THEN TRUE
    ELSE LET value_str == Lower(Str(metadata[key]))
         IN  IF expected.k = "list"
             THEN \E i \in DOMAIN expected.l :
                      Contains(Lower(Str(expected.l[i])), value_str)
             ELSE Contains(Lower(Str(expected)), value_str)

\* one iteration of the loop of _metadata_matches: TRUE when the loop goes on
KeyMatches(metadata, key, expected) ==
    IF key \notin DOMAIN metadata
    THEN FALSE
    ELSE LET value_str == Lower(Str(metadata[key]))
         IN  IF expected.k = "list"
             THEN \E i \in DOMAIN expected.l :
                      Contains(Lower(Str(expected.l[i])), value_str)
             ELSE Contains(Lower(Str(expected)), value_str)

_metadata_matches(metadata, f) ==
    IF IsFalsy(f) THEN TRUE
    ELSE \A key \in DOMAIN f.items : KeyMatches(metadata, key, f.items[key])

\* dict[key] = value on a dict kept as its item list (insertion order)
DictSet(items, id, score) ==
    IF \E i \in DOMAIN items : items[i].id = id
    THEN [i \in DOMAIN items |->
             IF items[i].id = id THEN [id |-> id, score |-> score] ELSE items[i]]
    ELSE Append(items, [id |-> id, score |-> score])

RECURSIVE DictFrom(_, _)
DictFrom(rs, n) ==
    IF n = 0 THEN <<>> ELSE DictSet(DictFrom(rs, n - 1), rs[n].id, rs[n].score)

\* a variant that sorts ascending (reverse=True left out)
InsertDesc_ascending(sorted, e) ==
    LET before == { i \in DOMAIN sorted : ~ RLt(e.score, sorted[i].score) }
        n == Cardinality(before)
    IN  SubSeq(sorted, 1, n) \o <<e>> \o SubSeq(sorted, n + 1, Len(sorted))

\* list.insert keeping a descending list descending and equal keys in order
InsertDesc(sorted, e) ==
    LET before == { i \in DOMAIN sorted : ~ RLt(sorted[i].score, e.score) }
        n == Cardinality(before)
    IN  SubSeq(sorted, 1, n) \o <<e>> \o SubSeq(sorted, n + 1, Len(sorted))

RECURSIVE SortedDesc(_)
\* sorted(items, key=lambda item: item[1], reverse=True): stable
SortedDesc(items) ==
    IF items = <<>> THEN <<>>
    ELSE InsertDesc(SortedDesc(SubSeq(items, 1, Len(items) - 1)), items[Len(items)])

\* a variant that does not cut the list
Take_uncut(items, n) == items

\* items[:n] for n >= 0
Take(items, n) == SubSeq(items, 1, Min(n, Len(items)))

Ids(items) == { items[i].id : i \in DOMAIN items }
ScoreOf(items, id, default) ==
    IF id \in Ids(items)
    THEN items[CHOOSE i \in DOMAIN items : items[i].id = id].score
    ELSE default

(***************************************************************************)
(* Construction: __init__ (the snapshot is loaded, the scorer is built     *)
(* when it was asked for, is installed, and the snapshot is not empty).    *)
(***************************************************************************)
NoCall ==
    /\ pc = "idle"
    /\ query = <<>> /\ limit = 1 /\ filters = None /\ alpha = RZero
    /\ semantic_results = <<>> /\ scores = <<>> /\ bm25_scores = EmptyMap
    /\ combined = <<>> /\ ranked = <<>> /\ results = <<>>
    /\ outcome = "none"
    /\ query_calls = <<>> /\ get_calls = <<>> /\ score_calls = 0

NoProbe == [metadata |-> EmptyMap, filters |-> None,
            applied |-> FALSE, result |-> FALSE]

\* texts and queries of the index: one token, two tokens, one token twice
\* (in two cases), no token, an underscore between two tokens; the queries
\* are these, the empty one, a token no text has, that token beside a known
\* one, and one token twice written another way
X_text == <<"x">>
XY_text == <<"x"," ","y">>
XX_text == <<"X","!","x">>
Bang_text == <<"!">>
YZ_text == <<"y","_","z">>
IndexTexts == { X_text, XY_text, XX_text, Bang_text, YZ_text }
IndexQueries == IndexTexts \cup { <<>>, <<"q">>, <<"q"," ","x">>, <<"x","-","X">> }
TopKs == 1..MaxTopK

\* the documents the program's index is built from
ProgramDocs == << [id |-> "a", text |-> XY_text], [id |-> "b", text |-> XX_text],
                 [id |-> "c", text |-> Bang_text] >>

\* no index but the one of an empty corpus; no session, no thread
NoIndex == documents = <<>> /\ index = from_documents(documents)
NoService ==
    /\ max_messages = 40
    /\ _messages = EmptyMap /\ _lock = "free"
    /\ threads = EmptyMap /\ appended = EmptyMap

Init ==
    /\ probe = NoProbe
    /\ documents = ProgramDocs /\ index = from_documents(documents)
    /\ NoService
    /\ documents_map \in Corpora
    /\ \E enable_bm25 \in BOOLEAN, BM25Okapi \in BOOLEAN :
          bm25 = (enable_bm25 /\ BM25Okapi /\ DOMAIN documents_map /= {})
    /\ bm25_ids = IF bm25 THEN KeysInOrder(documents_map) ELSE <<>>
    /\ NoCall

(***************************************************************************)
(* hybrid_search, up to the call of collection.query in semantic_search.   *)
(***************************************************************************)
hybrid_search ==
    /\ pc = "idle"
    /\ \E q \in Queries, l \in Limits, f \in FilterSet, al \in Alphas :
          /\ query' = q /\ limit' = l /\ filters' = f /\ alpha' = al
          /\ query_calls' = <<[query_texts |-> <<q>>,
                              n_results |-> l * 2,
                              where |-> _format_filters(f),
                              status |-> "pending"]>>
    /\ semantic_results' = <<>> /\ scores' = <<>> /\ bm25_scores' = EmptyMap
    /\ combined' = <<>> /\ ranked' = <<>> /\ results' = <<>>
    /\ outcome' = "none" /\ get_calls' = <<>> /\ score_calls' = 0
    /\ pc' = "query"
    /\ UNCHANGED <<retriever, probe, built, service>>

Ok(v) == [raised |-> FALSE, v |-> v]
Raise(e) == [raised |-> TRUE, exc |-> e]

\* x[0] on a list or a str
Index0(x) == IF Len(x) = 0 THEN Raise("IndexError") ELSE Ok(x[1])

\* d[0] on a metadata dict: its keys are str, the key 0 is not among them
DictIndex0(d) == Raise("KeyError")

\* lines 212-214: fetched["documents"][0][0] and fetched["metadatas"][0][0]
Fetched(fetched) ==
    LET doc == Index0(fetched.documents)
        text == IF doc.raised THEN doc
                ELSE LET ch == Index0(doc.v)
                     IN  IF ch.raised THEN ch ELSE Ok(<<ch.v>>)
        entry == Index0(fetched.metadatas)
        metadata == IF entry.raised THEN entry ELSE DictIndex0(entry.v)
    IN  IF text.raised THEN text
        ELSE IF metadata.raised THEN metadata
        ELSE Ok([text |-> text.v, metadata |-> metadata.v])

\* what a call of collection.get for doc_id can do: raise, or return
GetOutcomes(doc_id) ==
    {Raise("UpstreamError")} \cup { Ok(fetched) : fetched \in GetResponses(doc_id) }

\* the choices of an outcome of collection.get for each id of a list that the
\* snapshot lacks
GetChoices(list) ==
    LET absent == Ids(list) \ DOMAIN documents_map
    IN  { g \in [absent -> UNION { GetOutcomes(id) : id \in absent }] :
            \A id \in absent : g[id] \in GetOutcomes(id) }

\* _result_from_id(doc_id, score), `got` being what collection.get does when
\* it is called: the RetrievalResult, or the exception
_result_from_id(doc_id, score, got) ==
    IF doc_id \in DOMAIN documents_map
    THEN Ok([id |-> doc_id, text |-> documents_map[doc_id].text,
             score |-> score, metadata |-> documents_map[doc_id].metadata])
    ELSE IF got.raised THEN got
         ELSE LET r == Fetched(got.v)
              IN  IF r.raised THEN r
                  ELSE Ok([id |-> doc_id, text |-> r.v.text,
                           score |-> score, metadata |-> r.v.metadata])

RECURSIVE Resolve(_, _, _)
\* the list comprehension [self._result_from_id(doc_id, score) for ...] of
\* lines 154 and 170: entry after entry, until one raises; acc holds the
\* results built, the calls of collection.get made, and the outcome
Resolve(list, g, acc) ==
    LET i == Len(acc.results) + 1
    IN  IF i > Len(list)
        THEN [acc EXCEPT !.outcome = "ok"]
        ELSE LET doc_id == list[i].id
                 local == doc_id \in DOMAIN documents_map
                 got == IF local THEN Raise("unused") ELSE g[doc_id]
                 r == _result_from_id(doc_id, list[i].score, got)
                 called == IF local THEN acc.get_calls
                           ELSE Append(acc.get_calls,
                                   IF got.raised
                                   THEN [ids |-> <<doc_id>>, status |-> "raised"]
                                   ELSE [ids |-> <<doc_id>>, status |-> "returned",
                                         fetched |-> got.v])
             IN  IF r.raised
                 THEN [acc EXCEPT !.get_calls = called, !.outcome = r.exc]
                 ELSE Resolve(list, g, [acc EXCEPT !.get_calls = called,
                                                   !.results = Append(@, r.v)])

Resolved(list, g) ==
    Resolve(list, g, [results |-> <<>>, get_calls |-> <<>>, outcome |-> "none"])

\* the loop of semantic_search over zip(ids, documents, metadatas, distances)
SemanticResults(raw) ==
    LET n == Min(Min(Len(raw.ids), Len(raw.documents)),
                 Min(Len(raw.metadatas), Len(raw.distances)))
    IN  [i \in 1..n |-> [id |-> raw.ids[i],
                         text |-> raw.documents[i],
                         score |-> _distance_to_score(raw.distances[i]),
                         metadata |-> raw.metadatas[i]]]

\* a variant that asks the scorer whether or not one was built
semantic_search_always_scores ==
    /\ pc = "query"
    /\ \E raw \in QueryResponses(query_calls[1].n_results) :
          /\ semantic_results' = SemanticResults(raw)
          /\ scores' = DictFrom(semantic_results', Len(semantic_results'))
    /\ query_calls' = [query_calls EXCEPT ![1].status = "returned"]
    /\ pc' = "score"
    /\ score_calls' = score_calls + 1
    /\ UNCHANGED <<ranked, results, get_calls, outcome>>
    /\ UNCHANGED <<retriever, args, bm25_scores, combined, probe, built, service>>

\* collection.query returns: semantic_search builds its results, hybrid_search
\* fills `scores`; without the scorer it sorts, cuts to limit, resolves the
\* entries and returns (lines 152-154), with it _bm25_rank calls get_scores
semantic_search ==
    /\ pc = "query"
    /\ \E raw \in QueryResponses(query_calls[1].n_results) :
          /\ semantic_results' = SemanticResults(raw)
          /\ scores' = DictFrom(semantic_results', Len(semantic_results'))
    /\ query_calls' = [query_calls EXCEPT ![1].status = "returned"]
    /\ IF ~ bm25
       THEN /\ ranked' = Take(SortedDesc(scores'), limit)
            /\ \E r \in { Resolved(ranked', g) : g \in GetChoices(ranked') } :
                  /\ results' = r.results
                  /\ get_calls' = r.get_calls
                  /\ outcome' = r.outcome
            /\ pc' = "done"
            /\ score_calls' = score_calls
       ELSE /\ pc' = "score"
            /\ score_calls' = score_calls + 1
            /\ UNCHANGED <<ranked, results, get_calls, outcome>>
    /\ UNCHANGED <<retriever, args, bm25_scores, combined, probe, built, service>>

\* a variant that catches the error and returns an empty list
semantic_search_swallows ==
    /\ pc = "query"
    /\ query_calls' = [query_calls EXCEPT ![1].status = "raised"]
    /\ outcome' = "ok"
    /\ pc' = "done"
    /\ UNCHANGED <<retriever, args, locals, get_calls, score_calls, probe,
                   built, service>>

\* collection.query raises: nothing catches it
semantic_search_raises ==
    /\ pc = "query"
    /\ query_calls' = [query_calls EXCEPT ![1].status = "raised"]
    /\ outcome' = "UpstreamError"
    /\ pc' = "done"
    /\ UNCHANGED <<retriever, args, locals, get_calls, score_calls, probe,
                   built, service>>

\* a variant that keeps the documents failing the filter
_bm25_rank_unfiltered(sc, f) ==
    LET n == Min(Len(bm25_ids), Len(sc))
    IN  [id \in { bm25_ids[i] : i \in 1..n } |->
            RInt(sc[CHOOSE i \in 1..n : bm25_ids[i] = id])]

\* a variant that scores only the documents the semantic branch returned
_bm25_rank_candidates_only(sc, f) ==
    LET n == Min(Len(bm25_ids), Len(sc))
        passing == { i \in 1..n :
                       /\ bm25_ids[i] \in { scores[j].id : j \in DOMAIN scores }
                       /\ _metadata_matches(
                              IF bm25_ids[i] \in DOMAIN documents_map
                              THEN documents_map[bm25_ids[i]].metadata
                              ELSE EmptyMap, f) }
    IN  [id \in { bm25_ids[i] : i \in passing } |->
            RInt(sc[CHOOSE i \in passing : bm25_ids[i] = id])]

\* the loop of _bm25_rank over zip(self._bm25_ids, scores)
_bm25_rank(sc, f) ==
    LET n == Min(Len(bm25_ids), Len(sc))
        passing == { i \in 1..n :
                       _metadata_matches(
                           IF bm25_ids[i] \in DOMAIN documents_map
                           THEN documents_map[bm25_ids[i]].metadata
                           ELSE EmptyMap, f) }
    IN  [id \in { bm25_ids[i] : i \in passing } |->
            RInt(sc[CHOOSE i \in passing :
                       /\ bm25_ids[i] = id
                       /\ \A j \in passing : bm25_ids[j] = id => j <= i])]

\* max(d.values() or [1.0])
MaxOr1(values) == IF values = {} THEN ROne ELSE RMax(values)
\* x or 1.0
Or1(x) == IF x = RZero THEN ROne ELSE x

\* a variant that fuses the raw scores, without dividing by the maxima
final_score_raw(doc_id, sem, lex, al) ==
    RAdd(RMul(al, ScoreOf(sem, doc_id, RZero)),
         RMul(RSub(ROne, al),
              IF doc_id \in DOMAIN lex THEN lex[doc_id] ELSE RZero))

\* a variant that gives alpha to the lexical branch
final_score_swapped(doc_id, sem, lex, al) ==
    LET max_semantic == MaxOr1({ sem[i].score : i \in DOMAIN sem })
        max_bm25 == MaxOr1({ lex[id] : id \in DOMAIN lex })
        semantic_score == RDiv(ScoreOf(sem, doc_id, RZero), Or1(max_semantic))
        bm25_score == RDiv(IF doc_id \in DOMAIN lex THEN lex[doc_id] ELSE RZero,
                           Or1(max_bm25))
    IN  RAdd(RMul(RSub(ROne, al), semantic_score), RMul(al, bm25_score))

\* lines 160-166: the fused score of one id
final_score(doc_id, sem, lex, al) ==
    LET max_semantic == MaxOr1({ sem[i].score : i \in DOMAIN sem })
        max_bm25 == MaxOr1({ lex[id] : id \in DOMAIN lex })
        semantic_score == RDiv(ScoreOf(sem, doc_id, RZero), Or1(max_semantic))
        bm25_score == RDiv(IF doc_id \in DOMAIN lex THEN lex[doc_id] ELSE RZero,
                           Or1(max_bm25))
    IN  RAdd(RMul(al, semantic_score), RMul(RSub(ROne, al), bm25_score))

\* the orders in which a set can be iterated
Orders(S) == { o \in [1..Cardinality(S) -> S] :
                 \A i, j \in DOMAIN o : i /= j => o[i] /= o[j] }

\* get_scores returns: _bm25_rank filters, hybrid_search fuses, sorts, cuts
\* to limit, resolves the entries and returns (lines 156-170); the set all_ids
\* is iterated in an order the program does not fix
hybrid_search_fuse ==
    /\ pc = "score"
    /\ \E sc \in GetScoresResponses(_tokenize(query), Len(bm25_ids)) :
          /\ bm25_scores' = _bm25_rank(sc, filters)
          /\ LET all_ids == Ids(scores) \cup DOMAIN bm25_scores'
             IN  IF all_ids = {}
                 THEN /\ combined' = <<>> /\ ranked' = <<>>
                      /\ results' = <<>> /\ get_calls' = get_calls
                      /\ outcome' = "ok"
                 ELSE /\ combined' \in
                            { SortedDesc(
                                 [i \in DOMAIN order |->
                                    [id |-> order[i],
                                     score |-> final_score(order[i], scores,
                                                           bm25_scores', alpha)]])
                              : order \in Orders(all_ids) }
                      /\ ranked' = Take(combined', limit)
                      /\ \E r \in { Resolved(ranked', g) : g \in GetChoices(ranked') } :
                            /\ results' = r.results
                            /\ get_calls' = r.get_calls
                            /\ outcome' = r.outcome
    /\ pc' = "done"
    /\ UNCHANGED <<retriever, args, semantic_results, scores, query_calls,
                   score_calls, probe, built, service>>

\* the key order of a dict whose insertion order the counts do not depend on
DictOrder(map) == CHOOSE o \in Orders(DOMAIN map) : TRUE

\* a variant that stores 1 instead of adding 1
FacetAdd_overwrite(counts, key) ==
    [k \in DOMAIN counts \cup {key} |-> IF k = key THEN 1 ELSE counts[k]]

\* counts[key] = counts.get(key, 0) + 1
FacetAdd(counts, key) ==
    [k \in DOMAIN counts \cup {key} |->
        IF k = key THEN (IF key \in DOMAIN counts THEN counts[key] ELSE 0) + 1
        ELSE counts[k]]

\* lines 124-137 over the first n values of _documents_map
RECURSIVE facet_counts(_, _, _, _, _)
facet_counts(map, order, n, field, f) ==
    IF n = 0 THEN EmptyMap
    ELSE LET counts == facet_counts(map, order, n - 1, field, f)
             metadata == map[order[n]].metadata
         IN  IF ~ _metadata_matches(metadata, f) THEN counts
             ELSE IF field \notin DOMAIN metadata THEN counts
             ELSE FacetAdd(counts, Str(metadata[field]))

FacetFields == {"type", "gen", "region"}

\* a whole facet_counts call: it asks nothing of the store or the scorer
facet_counts_call ==
    /\ pc = "idle"
    /\ \E field \in FacetFields, f \in FilterSet :
          probe' = [field |-> field, filters |-> f,
                    counts |-> facet_counts(documents_map, DictOrder(documents_map),
                                            Cardinality(DOMAIN documents_map), field, f)]
    /\ pc' = "counted"
    /\ UNCHANGED <<retriever, args, locals, outcome, calls, built, service>>

\* a variant that sorts the index's own lists by id, last id first
search_call_reorders ==
    /\ pc = "idle"
    /\ \E q \in IndexQueries, top_k \in TopKs :
          probe' = [query |-> q, top_k |-> top_k, result |-> search(index, q, top_k)]
    /\ pc' = "searched"
    /\ index' = [index EXCEPT
                    !.doc_ids = [i \in DOMAIN @ |-> @[Len(@) + 1 - i]],
                    !.doc_vectors = [i \in DOMAIN @ |-> @[Len(@) + 1 - i]],
                    !.doc_norms = [i \in DOMAIN @ |-> @[Len(@) + 1 - i]]]
    /\ UNCHANGED <<retriever, args, locals, outcome, calls, documents, service>>

\* a whole SimpleVectorIndex.search call
search_call ==
    /\ pc = "idle"
    /\ \E q \in IndexQueries, top_k \in TopKs :
          probe' = [query |-> q, top_k |-> top_k, result |-> search(index, q, top_k)]
    /\ pc' = "searched"
    /\ UNCHANGED <<retriever, args, locals, outcome, calls, built, service>>

\* the caller has the list or the exception: the frame of the call is gone
call_ends ==
    /\ pc \in {"done", "counted", "searched", "chunked"}
    /\ pc' = "idle"
    /\ query' = <<>> /\ limit' = 1 /\ filters' = None /\ alpha' = RZero
    /\ semantic_results' = <<>> /\ scores' = <<>> /\ bm25_scores' = EmptyMap
    /\ combined' = <<>> /\ ranked' = <<>> /\ results' = <<>>
    /\ outcome' = "none"
    /\ query_calls' = <<>> /\ get_calls' = <<>> /\ score_calls' = 0
    /\ probe' = NoProbe
    /\ UNCHANGED <<retriever, built, service>>

Next ==
    \/ search_call
    \/ facet_counts_call
    \/ hybrid_search
    \/ semantic_search
    \/ semantic_search_raises
    \/ hybrid_search_fuse
    \/ call_ends

Spec == Init /\ [][Next]_vars

(***************************************************************************)
(* Vocabulary of the claims.                                               *)
(***************************************************************************)
Returned == pc = "done" /\ outcome = "ok"
\* the fusion of lines 156-169 has run in this call
Fused == bm25 /\ score_calls = 1 /\ pc = "done"
SemanticIds == Ids(scores)
LexicalIds == DOMAIN bm25_scores
UnionIds == SemanticIds \cup LexicalIds
SemanticScore(id) == ScoreOf(scores, id, RZero)
LexicalScore(id) == IF id \in LexicalIds THEN bm25_scores[id] ELSE RZero
ResultIds == { results[i].id : i \in DOMAIN results }
\* position of an id in the vector store's answer
SemanticPos(id) == CHOOSE j \in DOMAIN semantic_results : semantic_results[j].id = id
\* the list is ordered by the key, largest first
Descending(list, key(_)) ==
    \A i, j \in DOMAIN list : i < j => RLe(key(list[j].id), key(list[i].id))
\* nothing left out of the list has a key above the last entry's
NothingBetterLeftOut(list, candidates, key(_)) ==
    \A id \in candidates \ { list[i].id : i \in DOMAIN list } :
        /\ list /= <<>>
        /\ RLe(key(id), key(list[Len(list)].id))

(***************************************************************************)
(* C1: a call of hybrid_search whose query has no token makes no call of   *)
(* collection.query, of collection.get or of the scorer, and returns the   *)
(* empty list.                                                             *)
(***************************************************************************)
C1_EmptyQueryCallsNothing ==
    (pc /= "idle" /\ _tokenize(query) = <<>>) =>
        /\ query_calls = <<>> /\ get_calls = <<>> /\ score_calls = 0
        /\ pc = "done" => (outcome = "ok" /\ results = <<>>)

(***************************************************************************)
(* C2: without the scorer, the list returned holds the semantic candidates *)
(* with their semantic score 1/(1+distance), largest score first (equal    *)
(* scores in the store's order), cut to limit; alpha does not occur.       *)
(***************************************************************************)
C2_DisabledReturnsSemanticTop ==
    (Returned /\ ~ bm25) =>
        /\ Len(results) = Min(limit, Len(semantic_results))
        /\ \A i \in DOMAIN results :
              /\ results[i].id \in SemanticIds
              /\ results[i].score = semantic_results[SemanticPos(results[i].id)].score
        /\ \A i, j \in DOMAIN results : i < j =>
              /\ results[i].id /= results[j].id
              /\ RLe(results[j].score, results[i].score)
              /\ results[i].score = results[j].score =>
                    SemanticPos(results[i].id) < SemanticPos(results[j].id)
        /\ \A id \in SemanticIds \ ResultIds :
              /\ results /= <<>>
              /\ RLe(SemanticScore(id), results[Len(results)].score)
              /\ SemanticScore(id) = results[Len(results)].score =>
                    SemanticPos(results[Len(results)].id) < SemanticPos(id)

C2_Witness ==
    /\ Returned /\ ~ bm25
    /\ alpha = ROne
    /\ Len(results) = 2 /\ Len(semantic_results) = 3
    /\ RLt(results[2].score, results[1].score)
    /\ SemanticPos(results[2].id) < SemanticPos(results[1].id)

(***************************************************************************)
(* C3: with the scorer, the fused list has one entry for every id of the   *)
(* semantic branch or of the lexical branch and for no other id, and the   *)
(* entry's score is alpha * s/S + (1 - alpha) * b/B, where s and b are the *)
(* id's scores in the two branches (0 when absent) and S and B the         *)
(* branches' divisors.  Stated without division:                           *)
(*   score * S * B = alpha * s * B + (1 - alpha) * b * S.                  *)
(***************************************************************************)
C3_FusedUnionAndScore ==
    Fused =>
        LET S == Or1(MaxOr1({ scores[i].score : i \in DOMAIN scores }))
            B == Or1(MaxOr1({ bm25_scores[id] : id \in LexicalIds }))
        IN  /\ Ids(combined) = UnionIds
            /\ Len(combined) = Cardinality(UnionIds)
            /\ \A i \in DOMAIN combined :
                  RMul(combined[i].score, RMul(S, B))
                    = RAdd(RMul(alpha, RMul(SemanticScore(combined[i].id), B)),
                           RMul(RSub(ROne, alpha),
                                RMul(LexicalScore(combined[i].id), S)))

C3_Witness ==
    /\ Fused
    /\ alpha = Rat(1, 2)
    /\ SemanticIds \ LexicalIds /= {}
    /\ LexicalIds \ SemanticIds /= {}
    /\ SemanticIds \cap LexicalIds /= {}
    /\ \E id \in LexicalIds : bm25_scores[id] = RInt(1)
    /\ \E id \in LexicalIds : bm25_scores[id] = RInt(0 - 1)
    /\ \A i \in DOMAIN scores : scores[i].score = Rat(1, 2)

(***************************************************************************)
(* C4, as claimed: with the scorer, every id of the list returned is one   *)
(* of the at most 2 * limit ids of the semantic branch.                    *)
(***************************************************************************)
C4_OnlySemanticIdsReturned ==
    (Returned /\ bm25) =>
        /\ Cardinality(SemanticIds) <= 2 * limit
        /\ ResultIds \subseteq SemanticIds

(***************************************************************************)
(* C4, amended: with the scorer, every id of the list returned is an id of *)
(* the semantic branch or the id of a snapshot document that passes the    *)
(* filter.                                                                 *)
(***************************************************************************)
C4_OnlyUnionIdsReturned ==
    (Returned /\ bm25) =>
        /\ Cardinality(SemanticIds) <= 2 * limit
        /\ ResultIds \subseteq
              SemanticIds \cup
              { id \in DOMAIN documents_map :
                    _metadata_matches(documents_map[id].metadata, filters) }

C4_Witness ==
    /\ Returned /\ bm25
    /\ ~ IsFalsy(filters)
    /\ ResultIds \ SemanticIds /= {}
    /\ DOMAIN documents_map \ LexicalIds /= {}

(***************************************************************************)
(* C5, as claimed: with the scorer and alpha = 1, the list returned is the *)
(* semantic candidates, largest semantic score first, cut to limit, and    *)
(* holds no id the semantic branch did not return.                         *)
(***************************************************************************)
C5_AlphaOneIsSemanticRanking ==
    (Returned /\ bm25 /\ alpha = ROne) =>
        /\ ResultIds \subseteq SemanticIds
        /\ Len(results) = Min(limit, Cardinality(SemanticIds))
        /\ Descending(results, SemanticScore)
        /\ NothingBetterLeftOut(results, SemanticIds, SemanticScore)

(***************************************************************************)
(* C5, amended: with the scorer and alpha = 1, the list returned is the    *)
(* union's ids, largest semantic score first (an id the semantic branch    *)
(* did not return counts 0 and so comes after every semantic candidate),   *)
(* cut to limit; it holds an id the semantic branch did not return only    *)
(* when that branch returned fewer than limit ids.                         *)
(***************************************************************************)
C5_AlphaOneOrdersBySemanticScore ==
    (Returned /\ bm25 /\ alpha = ROne) =>
        /\ ResultIds \subseteq UnionIds
        /\ Len(results) = Min(limit, Cardinality(UnionIds))
        /\ Descending(results, SemanticScore)
        /\ NothingBetterLeftOut(results, UnionIds, SemanticScore)
        /\ ResultIds \ SemanticIds /= {} =>
              (SemanticIds \subseteq ResultIds /\ Cardinality(SemanticIds) < limit)

C5_Witness ==
    /\ Returned /\ bm25 /\ alpha = ROne
    /\ Len(results) = 2
    /\ results[1].id \in SemanticIds
    /\ results[2].id \notin SemanticIds
    /\ LexicalScore(results[2].id) = RInt(1)
    /\ LexicalScore(results[1].id) = RZero

(***************************************************************************)
(* C6: with the scorer and alpha = 0, the list returned is the union's     *)
(* ids, largest lexical score first (an id without lexical score counts    *)
(* 0), cut to limit.                                                       *)
(***************************************************************************)
C6_AlphaZeroIsLexicalRanking ==
    (Returned /\ bm25 /\ alpha = RZero) =>
        /\ ResultIds \subseteq UnionIds
        /\ Len(results) = Min(limit, Cardinality(UnionIds))
        /\ Descending(results, LexicalScore)
        /\ NothingBetterLeftOut(results, UnionIds, LexicalScore)

(***************************************************************************)
(* C7: the list returned has at most limit entries, its scores do not      *)
(* increase from first to last, and no candidate left out has a fused      *)
(* score above the last entry's (without the scorer the candidates are the *)
(* semantic ones and the score is the semantic score).                     *)
(***************************************************************************)
CandidateIds == IF bm25 THEN UnionIds ELSE SemanticIds
CandidateScore(id) ==
    IF bm25 THEN final_score(id, scores, bm25_scores, alpha) ELSE SemanticScore(id)

C7_TopLimitDescending ==
    Returned =>
        /\ Len(results) <= limit
        /\ \A i \in DOMAIN results : results[i].score = CandidateScore(results[i].id)
        /\ \A i, j \in DOMAIN results :
              i < j => RLe(results[j].score, results[i].score)
        /\ NothingBetterLeftOut(results, CandidateIds, CandidateScore)

C7_Witness ==
    /\ Returned /\ bm25
    /\ limit = 1 /\ Len(results) = 1
    /\ Cardinality(CandidateIds) = 3
    /\ \E id \in CandidateIds : RLt(CandidateScore(id), results[1].score)
    /\ alpha = Rat(1, 2)
    /\ results[1].id \notin SemanticIds

(***************************************************************************)
(* C9: every entry of the ranked list is resolved: from the snapshot when  *)
(* the id is there, without a call of collection.get for it; otherwise by  *)
(* one call of collection.get, the entry's text being the document string  *)
(* and its metadata the metadata map of the answer.  (A call in which      *)
(* collection.query or collection.get itself raised is not covered.)       *)
(***************************************************************************)
GetCallFor(id) == { i \in DOMAIN get_calls : get_calls[i].ids = <<id>> }

C9_ResolvedFromSnapshotElseGet ==
    (pc = "done" /\ outcome /= "UpstreamError") =>
        /\ outcome = "ok"
        /\ Len(results) = Len(ranked)
        /\ \A i \in DOMAIN results :
              LET id == results[i].id
              IN  /\ id = ranked[i].id
                  /\ IF id \in DOMAIN documents_map
                     THEN /\ results[i].text = documents_map[id].text
                          /\ results[i].metadata = documents_map[id].metadata
                          /\ GetCallFor(id) = {}
                     ELSE /\ Cardinality(GetCallFor(id)) = 1
                          /\ \A c \in GetCallFor(id) :
                                /\ results[i].text = get_calls[c].fetched.documents[1]
                                /\ results[i].metadata = get_calls[c].fetched.metadatas[1]

(***************************************************************************)
(* C10: when collection.query raises, the call ends with that error: no    *)
(* list is returned, nothing was ranked or resolved, and collection.query  *)
(* was called once.                                                        *)
(***************************************************************************)
QueryRaised == query_calls /= <<>> /\ query_calls[1].status = "raised"

C10_QueryFailurePropagates ==
    /\ Len(query_calls) <= 1
    /\ QueryRaised =>
          /\ pc = "done"
          /\ outcome = "UpstreamError"
          /\ results = <<>> /\ ranked = <<>> /\ combined = <<>>
          /\ get_calls = <<>> /\ score_calls = 0

C10_Witness ==
    /\ QueryRaised
    /\ bm25
    /\ _tokenize(query) /= <<>>

(***************************************************************************)
(* The filter predicate on its own: _metadata_matches applied to a         *)
(* metadata map and a filter drawn from bounded sets.                      *)
(***************************************************************************)
MaxListLen == 2

MetaKeys == {"type", "gen"}
FilterKeys == {"type", "gen", "region"}
MetaValues == { StrV(<<"F","i">>), StrV(<<"f","i","r">>), IntV(1), BoolV(TRUE) }
FilterScalars == { StrV(<<"f","I">>), StrV(<<"I","R">>), IntV(1), StrV(<<"t","r","u">>) }
ListElements == { StrV(<<"I","R">>), IntV(1) }
FilterLists == UNION { { ListV(l) : l \in [1..n -> ListElements] } : n \in 0..MaxListLen }
FilterValues == FilterScalars \cup FilterLists
Maps(keys, values) == UNION { [ks -> values] : ks \in SUBSET keys }
Metadatas == Maps(MetaKeys, MetaValues)
ProbeFilters == {None} \cup { Dict(m) : m \in Maps(FilterKeys, FilterValues) }

InitMatch ==
    /\ documents_map = EmptyMap /\ bm25 = FALSE /\ bm25_ids = <<>>
    /\ NoIndex /\ NoService
    /\ NoCall
    /\ \E m \in Metadatas, f \in ProbeFilters :
          probe = [metadata |-> m, filters |-> f, applied |-> FALSE, result |-> FALSE]

metadata_matches_call ==
    /\ ~ probe.applied
    /\ probe' = [probe EXCEPT !.applied = TRUE,
                              !.result = _metadata_matches(probe.metadata, probe.filters)]
    /\ UNCHANGED <<retriever, pc, args, locals, outcome, calls, built, service>>

NextMatch == metadata_matches_call

SpecMatch == InitMatch /\ [][NextMatch]_vars

(***************************************************************************)
(* C8: the predicate is true exactly when the filter is absent or empty,   *)
(* or every key of the filter is a key of the metadata and the lowercased  *)
(* string of the filter value (of at least one element of it, for a list)  *)
(* occurs in the lowercased string of the metadata value; a key the        *)
(* metadata lacks makes it false.                                          *)
(***************************************************************************)
\* needle occurs in hay at some offset
Occurs(needle, hay) ==
    \E off \in 0..(Len(hay) - Len(needle)) :
        \A j \in 1..Len(needle) : hay[off + j] = needle[j]
OccursLowered(expected, value) == Occurs(Lower(Str(expected)), Lower(Str(value)))

C8_FilterPredicate ==
    probe.applied =>
        LET m == probe.metadata
            f == probe.filters
            absent == f.isNone
            empty == ~ f.isNone /\ DOMAIN f.items = {}
        IN  /\ (absent \/ empty) => probe.result
            /\ ~ (absent \/ empty) =>
                  /\ (\E key \in DOMAIN f.items : key \notin DOMAIN m) => ~ probe.result
                  /\ probe.result <=>
                        \A key \in DOMAIN f.items :
                            /\ key \in DOMAIN m
                            /\ IF f.items[key].k = "list"
                               THEN \E i \in DOMAIN f.items[key].l :
                                        OccursLowered(f.items[key].l[i], m[key])
                               ELSE OccursLowered(f.items[key], m[key])

C8_Witness ==
    /\ probe.applied /\ probe.result
    /\ ~ probe.filters.isNone
    /\ DOMAIN probe.filters.items = {"type", "gen"}
    /\ probe.filters.items["type"] = ListV(<<IntV(1), StrV(<<"I","R">>)>>)
    /\ probe.filters.items["gen"] = StrV(<<"t","r","u">>)
    /\ probe.metadata["type"] = StrV(<<"f","i","r">>)
    /\ probe.metadata["gen"] = BoolV(TRUE)

(***************************************************************************)
(* Loading a persisted JSONL snapshot.  A line is given by what the two    *)
(* loaders ask of it: whether `line.strip()` is empty, and what            *)
(* json.loads(line) does, which is to raise JSONDecodeError or to return   *)
(* the payload.                                                            *)
(***************************************************************************)
MaxLines == 3

BlankLine == [blank |-> TRUE, parsed |-> Raise("JSONDecodeError")]
BadLine == [blank |-> FALSE, parsed |-> Raise("JSONDecodeError")]
JsonLine(payload) == [blank |-> FALSE, parsed |-> Ok(payload)]

P_a == ("id" :> "a") @@ ("text" :> T_fire) @@ ("category" :> "pokemon")
          @@ ("metadata" :> DocA.metadata)
P_b == ("id" :> "b")
P_noid == ("text" :> T_water) @@ ("category" :> "move")

SnapshotLines == { BlankLine, BadLine, JsonLine(P_a), JsonLine(P_b), JsonLine(P_noid) }
Snapshots == UNION { [1..n -> SnapshotLines] : n \in 0..MaxLines }

\* payload.get(key, default)
PayloadGet(payload, key, default) ==
    IF key \in DOMAIN payload THEN payload[key] ELSE default

\* lines 66-75 of retrieval.py from line i on, map being the _documents_map
\* so far: nothing catches what json.loads or payload["id"] raises
RECURSIVE _load_documents(_, _, _)
_load_documents(lines, i, map) ==
    IF i > Len(lines) THEN [exc |-> "none", map |-> map]
    ELSE LET line == lines[i] IN
         IF line.blank THEN _load_documents(lines, i + 1, map)
         ELSE IF line.parsed.raised THEN [exc |-> line.parsed.exc, map |-> map]
         ELSE LET payload == line.parsed.v IN
              IF "id" \notin DOMAIN payload THEN [exc |-> "KeyError", map |-> map]
              ELSE LET entry == [text |-> PayloadGet(payload, "text", <<>>),
                                 metadata |-> PayloadGet(payload, "metadata", EmptyMap)]
                       doc_id == payload["id"]
                   IN  _load_documents(lines, i + 1,
                           [x \in DOMAIN map \cup {doc_id} |->
                               IF x = doc_id THEN entry ELSE map[x]])

\* Document.from_dict: id, text and category are indexed, the rest defaulted
from_dict(d) ==
    IF {"id", "text", "category"} \subseteq DOMAIN d
    THEN Ok([id |-> d["id"], text |-> d["text"], category |-> d["category"],
             metadata |-> PayloadGet(d, "metadata", EmptyMap),
             source_file |-> PayloadGet(d, "source_file", <<>>)])
    ELSE Raise("KeyError")

\* DocumentBuilder.load_all over the lines of one file: JSONDecodeError and
\* KeyError are caught per line and the loop goes on
RECURSIVE load_all(_, _)
load_all(lines, n) ==
    IF n = 0 THEN <<>>
    ELSE LET line == lines[n]
             docs == load_all(lines, n - 1)
         IN  IF line.blank \/ line.parsed.raised THEN docs
             ELSE LET doc == from_dict(line.parsed.v) IN
                  IF doc.raised THEN docs ELSE Append(docs, doc.v)

InitLoad ==
    /\ documents_map = EmptyMap /\ bm25 = FALSE /\ bm25_ids = <<>>
    /\ NoIndex /\ NoService
    /\ NoCall
    /\ \E lines \in Snapshots :
          probe = [lines |-> lines, loaded |-> FALSE, exc |-> "none",
                   built |-> FALSE, docs |-> <<>>]

\* the constructor's `self._load_documents(documents_path)`
load_documents_call ==
    /\ ~ probe.loaded
    /\ LET r == _load_documents(probe.lines, 1, documents_map) IN
          /\ documents_map' = r.map
          /\ probe' = [probe EXCEPT !.loaded = TRUE, !.exc = r.exc]
    /\ UNCHANGED <<bm25, bm25_ids, pc, args, locals, outcome, calls, built, service>>

\* the pipeline's DocumentBuilder.load_all on the same file
load_all_call ==
    /\ ~ probe.built
    /\ probe' = [probe EXCEPT !.built = TRUE,
                              !.docs = load_all(probe.lines, Len(probe.lines))]
    /\ UNCHANGED <<retriever, pc, args, locals, outcome, calls, built, service>>

NextLoad ==
    \/ load_documents_call
    \/ load_all_call

SpecLoad == InitLoad /\ [][NextLoad]_vars

\* a line that is not blank, parses, and carries an id
WellFormed(line) ==
    /\ ~ line.blank
    /\ ~ line.parsed.raised
    /\ "id" \in DOMAIN line.parsed.v

\* the well-formed lines of a snapshot, in order
WellFormedLines(lines) == SelectSeq(lines, WellFormed)

(***************************************************************************)
(* C11: once the snapshot has been loaded into the Metadata Store, no      *)
(* error was raised and the store holds exactly the documents of the       *)
(* well-formed lines, a malformed line having been skipped on its own.     *)
(***************************************************************************)
C11_MalformedLineSkipped ==
    probe.loaded =>
        /\ probe.exc = "none"
        /\ documents_map = _load_documents(WellFormedLines(probe.lines), 1, EmptyMap).map

\* the pipeline loader does skip: a bad line first, a good one after it
C11_PipelineSkips ==
    /\ probe.built /\ probe.loaded
    /\ probe.lines = <<BadLine, JsonLine(P_a)>>
    /\ Len(probe.docs) = 1
    /\ probe.exc = "JSONDecodeError"
    /\ documents_map = EmptyMap

(***************************************************************************)
(* Facet counts on their own: the Metadata Store drawn from bounded sets   *)
(* of documents, the scorer off.                                           *)
(***************************************************************************)
MaxFacetDocs == 3

FacetIds == { <<"a", "b", "c", "d">>[i] : i \in 1..MaxFacetDocs }
FacetMetas == { EmptyMap,
                "type" :> StrV(<<"F","i","r","e">>),
                "type" :> StrV(<<"W","a","t","e","r">>),
                ("type" :> StrV(<<"F","i","r","e">>)) @@ ("gen" :> IntV(1)),
                ("type" :> StrV(<<"W","a","t","e","r">>)) @@ ("gen" :> StrV(<<"1">>)) }
FacetStores ==
    UNION { [ids -> { [text |-> T_fire, metadata |-> m] : m \in FacetMetas }] :
            ids \in SUBSET FacetIds }

InitFacet ==
    /\ probe = NoProbe
    /\ NoIndex /\ NoService
    /\ documents_map \in FacetStores
    /\ bm25 = FALSE /\ bm25_ids = <<>>
    /\ NoCall

NextFacet ==
    \/ facet_counts_call
    \/ call_ends

SpecFacet == InitFacet /\ [][NextFacet]_vars

RECURSIVE SumOver(_, _)
SumOver(counts, keys) ==
    IF keys = {} THEN 0
    ELSE LET k == CHOOSE x \in keys : TRUE IN counts[k] + SumOver(counts, keys \ {k})
\* the sum of the values of a counts dict
Total(counts) == SumOver(counts, DOMAIN counts)

\* the documents that pass the filter and define the field
Counted(field, f) ==
    { id \in DOMAIN documents_map :
        /\ _metadata_matches(documents_map[id].metadata, f)
        /\ field \in DOMAIN documents_map[id].metadata }

(***************************************************************************)
(* C12: the counts returned by facet_counts(field, filters) sum to the     *)
(* number of documents that pass the filter and define the field; with no  *)
(* filter and every document defining the field, that is the corpus size.  *)
(***************************************************************************)
C12_FacetCountsSum ==
    pc = "counted" =>
        /\ Total(probe.counts) = Cardinality(Counted(probe.field, probe.filters))
        /\ ( /\ probe.filters.isNone
             /\ \A id \in DOMAIN documents_map :
                   probe.field \in DOMAIN documents_map[id].metadata )
           => Total(probe.counts) = Cardinality(DOMAIN documents_map)

\* three documents all defining type, two of them of the same type,
\* counted with no filter
C12_Witness ==
    /\ pc = "counted"
    /\ probe.filters.isNone /\ probe.field = "type"
    /\ Cardinality(DOMAIN documents_map) = 3
    /\ \A id \in DOMAIN documents_map : "type" \in DOMAIN documents_map[id].metadata
    /\ DOMAIN probe.counts = { <<"F","i","r","e">>, <<"W","a","t","e","r">> }
    /\ probe.counts[<<"F","i","r","e">>] = 2
    /\ Total(probe.counts) = 3

(***************************************************************************)
(* The index on its own: built from every corpus of at most MaxDocs texts, *)
(* then searched.                                                          *)
(***************************************************************************)
IndexIdAt == <<"a", "b", "c", "d">>
IndexCorpora ==
    UNION { { [i \in 1..n |-> [id |-> IndexIdAt[i], text |-> texts[i]]] :
              texts \in [1..n -> IndexTexts] } : n \in 0..MaxDocs }

InitIndex ==
    /\ probe = NoProbe
    /\ documents_map = EmptyMap /\ bm25 = FALSE /\ bm25_ids = <<>>
    /\ NoCall /\ NoService
    /\ documents \in IndexCorpora
    /\ index = from_documents(documents)

NextIndex ==
    \/ search_call
    \/ call_ends

SpecIndex == InitIndex /\ [][NextIndex]_vars

\* a search call has returned
Searched == pc = "searched"
\* some token of the query is in the vocabulary
KnownToken == \E t \in Range(_tokenise(probe.query)) : t \in DOMAIN index.vocab_index

(***************************************************************************)
(* C13: when no token of the query is in the vocabulary (an empty or       *)
(* punctuation-only query, a query of unknown tokens only, any query on    *)
(* the index of an empty corpus, which builds), search returns the empty   *)
(* list; every call of the model returns a list, none raises.              *)
(***************************************************************************)
C13_NoKnownTokenReturnsEmpty ==
    (Searched /\ ~ KnownToken) => probe.result = <<>>

\* an unknown token asked of an index that has documents and a vocabulary
C13_Witness ==
    /\ Searched /\ ~ KnownToken
    /\ probe.query = <<"q">>
    /\ Len(index.doc_ids) = 2
    /\ DOMAIN index.vocab_index /= {}
    /\ probe.result = <<>>

(***************************************************************************)
(* C14: the list search returns is no longer than top_k and no longer      *)
(* than the corpus.                                                        *)
(***************************************************************************)
C14_ResultLength ==
    Searched =>
        /\ Len(probe.result) <= probe.top_k
        /\ Len(probe.result) <= Len(documents)

\* the cut bites: two documents scored, top_k = 1, one returned
C14_Witness ==
    /\ Searched /\ KnownToken
    /\ Len(documents) = 2 /\ probe.top_k = 1
    /\ Len(probe.result) = 1

\* the score is 1.0: the dot product equals the product of the norms
IsOne(s) == RMul(s.dot, s.dot) = RMul(s.norm.sq, s.query_norm.sq)
\* the documents whose token sequence is the query's
SameTokens ==
    { i \in DOMAIN documents :
        /\ _tokenise(documents[i].text) = _tokenise(probe.query)
        /\ _tokenise(probe.query) /= <<>> }
ResultAt(id) == CHOOSE j \in DOMAIN probe.result : probe.result[j].id = id

(***************************************************************************)
(* C16: a document whose token sequence is the query's (of at least one    *)
(* token) is scored 1.0, the dot product being the product of the two      *)
(* norms, and 1.0 is the largest score of the result: the result starts    *)
(* with a score of 1.0, no score exceeds it, and the document is in the    *)
(* result unless top_k documents that also score 1.0 stand before it.      *)
(***************************************************************************)
C16_SameTokensScoreOne ==
    Searched =>
        \A i \in SameTokens :
            /\ probe.result /= <<>>
            /\ IsOne(probe.result[1].score)
            /\ \A j \in DOMAIN probe.result : RLe(Squared(probe.result[j].score), ROne)
            /\ IF \E j \in DOMAIN probe.result : probe.result[j].id = documents[i].id
               THEN IsOne(probe.result[ResultAt(documents[i].id)].score)
               ELSE /\ Len(probe.result) = probe.top_k
                    /\ \A j \in DOMAIN probe.result : IsOne(probe.result[j].score)

\* the query "x-X" against the documents "x y" and "X!x": the second has the
\* query's tokens and comes first with 1.0, the first scores less
C16_Witness ==
    /\ Searched
    /\ probe.query = <<"x","-","X">> /\ probe.top_k = 2
    /\ Len(documents) = 2
    /\ documents[1].text = XY_text /\ documents[2].text = XX_text
    /\ SameTokens = {2}
    /\ Len(probe.result) = 2
    /\ probe.result[1].id = "b" /\ IsOne(probe.result[1].score)
    /\ probe.result[2].id = "a" /\ ScoreLt(probe.result[2].score, probe.result[1].score)

\* the ids of a list of (id, score), in the list's order
IdSeq(items) == [i \in DOMAIN items |-> items[i].id]
\* what lines 157-169 give when the set all_ids is iterated in this order
FusedIn(order) ==
    Take(SortedDesc([i \in DOMAIN order |->
                        [id |-> order[i],
                         score |-> final_score(order[i], scores, bm25_scores, alpha)]]),
         limit)

(***************************************************************************)
(* C15: the ordered id list a call returns is fixed by the corpus, the     *)
(* query, the limit and the collaborators' answers, ties included: for     *)
(* hybrid_search, whichever order the candidate id set is iterated in,     *)
(* the ranked id list is the one this call produced.                       *)
(***************************************************************************)
C15_SameInputsSameOrder ==
    Fused => \A order \in Orders(UnionIds) : IdSeq(FusedIn(order)) = IdSeq(ranked)

\* no field of the built index changes in the step
IndexUnchanged ==
    /\ index'.doc_ids = index.doc_ids
    /\ index'.doc_vectors = index.doc_vectors
    /\ index'.vocab_index = index.vocab_index
    /\ index'.idf = index.idf
    /\ index'.doc_norms = index.doc_norms
\* the Metadata Store, the lexical corpus order and the lexical-enabled state
RetrieverUnchanged ==
    /\ documents_map' = documents_map
    /\ bm25_ids' = bm25_ids
    /\ bm25' = bm25

(***************************************************************************)
(* C17: no step of a search, a hybrid_search or a facet_counts call        *)
(* changes the built index or the retriever's Metadata Store, lexical      *)
(* corpus order or lexical-enabled state; so a search, whatever calls ran  *)
(* before it, returns what it returns on the index as built.               *)
(***************************************************************************)
C17_SearchesChangeNothing ==
    /\ [][IndexUnchanged /\ RetrieverUnchanged]_vars
    /\ [](Searched =>
             probe.result = search(from_documents(documents), probe.query, probe.top_k))

\* a search that found two documents on the program's index, the retriever
\* holding a snapshot and its scorer
C17_Witness ==
    /\ Searched
    /\ Len(probe.result) = 2
    /\ index = from_documents(ProgramDocs)
    /\ bm25 /\ bm25_ids = <<"a", "b">>

(***************************************************************************)
(* The chat service (app/service.py): ConversationMemory under its lock,   *)
(* run by threads.  A thread inside a memory method is at mem = "acquire"  *)
(* (waiting for the lock), "body" or "trim" (holding it).                  *)
(***************************************************************************)
MaxMessages == 2
MaxCalls == 3
MaxChats == 2

Sessions == {"s1", "s2"}
Threads == {"t1", "t2"}

MemoryMessage(role, content, citations) ==
    [role |-> role, content |-> content, citations |-> citations]
NoMessage == MemoryMessage("none", <<>>, <<>>)
NoReturn == [raised |-> FALSE, v |-> "none"]

\* a thread that runs no call, having made n calls
Idle(n) ==
    [op |-> "none", pc |-> "idle", session |-> "none", message |-> <<>>, n |-> n,
     mem |-> "none", mem_op |-> "none", mem_arg |-> NoMessage, excess |-> 0,
     history |-> <<>>, tool_contexts |-> <<>>, citations |-> <<>>,
     tool_calls |-> 0, llm_calls |-> 0,
     prompt |-> <<>>, reply_text |-> <<>>, returned |-> NoReturn]

RECURSIVE SumOf(_, _)
SumOf(f, S) ==
    IF S = {} THEN 0
    ELSE LET x == CHOOSE y \in S : TRUE IN f[x] + SumOf(f, S \ {x})
\* calls started so far, over all threads
CallsMade == SumOf([t \in Threads |-> threads[t].n], Threads)

\* self._messages.get(session_id, ())
History(s) == IF s \in DOMAIN _messages THEN _messages[s] ELSE <<>>

\* everything but the service
elsewhere == <<retriever, pc, args, locals, outcome, calls, probe, built>>

\* the thread enters a memory method: it goes for the lock
EnterMemory(th, mem_op, mem_arg) ==
    [th EXCEPT !.mem = "acquire", !.mem_op = mem_op, !.mem_arg = mem_arg]

\* a variant that does not wait for the lock
acquire_unlocked(t) ==
    /\ threads[t].mem = "acquire"
    /\ _lock' = t
    /\ threads' = [threads EXCEPT ![t].mem = "body"]
    /\ UNCHANGED <<max_messages, _messages, appended, elsewhere>>

\* `with self._lock:` on entry
acquire(t) ==
    /\ threads[t].mem = "acquire"
    /\ _lock = "free"
    /\ _lock' = t
    /\ threads' = [threads EXCEPT ![t].mem = "body"]
    /\ UNCHANGED <<max_messages, _messages, appended, elsewhere>>

\* str.strip() is empty: every character is whitespace
IsSpace(c) == c \in {" ", "\t", "\n", "\r"}
RECURSIVE LStrip(_)
LStrip(str) == IF str /= <<>> /\ IsSpace(Head(str)) THEN LStrip(Tail(str)) ELSE str
RECURSIVE RStrip(_)
RStrip(str) ==
    IF str /= <<>> /\ IsSpace(str[Len(str)])
    THEN RStrip(SubSeq(str, 1, Len(str) - 1)) ELSE str
\* a variant that strips nothing
Strip_none(str) == str

Strip(str) == RStrip(LStrip(str))

RECURSIVE Join(_, _)
\* sep.join(parts)
Join(sep, parts) ==
    IF parts = <<>> THEN <<>>
    ELSE IF Len(parts) = 1 THEN parts[1]
    ELSE parts[1] \o sep \o Join(sep, Tail(parts))

\* str.capitalize() of a role
Capitalize(role) ==
    CASE role = "user" -> <<"U","s","e","r">>
      [] role = "assistant" -> <<"A","s","s","i","s","t","a","n","t">>

RelevantContext ==
    <<"R","e","l","e","v","a","n","t"," ","c","o","n","t","e","x","t",":","\n">>
UserPrefix == <<"U","s","e","r",":"," ">>
AssistantSuffix == <<"\n","A","s","s","i","s","t","a","n","t",":">>
SourcesInfix == <<"\n","\n","S","o","u","r","c","e","s",":"," ">>

\* ConversationManager._build_prompt
_build_prompt(history, message, tool_contexts) ==
    LET past == [i \in DOMAIN history |->
                    Capitalize(history[i].role) \o <<":", " ">> \o history[i].content]
        context == IF tool_contexts /= <<>>
                   THEN << RelevantContext \o Join(<<"\n">>, tool_contexts) >>
                   ELSE <<>>
    IN  Join(<<"\n">>, past \o context \o << UserPrefix \o message \o AssistantSuffix >>)

\* the registered tools, in registration order, and what a call of each can
\* do: raise, return None, or return a ToolResult
ToolResult(content, citations) ==
    [isNone |-> FALSE, content |-> content, citations |-> citations]
Tools == <<"retrieval", "lookup">>
ToolOutcomes(name) ==
    IF name = "retrieval"
    THEN { Raise("Exception"),
           Ok(ToolResult(<<"c","A">>, << <<"d","1">>, <<"d","2">> >>)) }
    ELSE { Ok(None),
           Ok(ToolResult(<<"c","B">>, << <<"d","2">>, <<"d","3">> >>)) }

RECURSIVE AddCitations(_, _)
\* lines 184-186: each citation not yet in the list is appended
AddCitations(citations, new) ==
    IF new = <<>> THEN citations
    ELSE AddCitations(IF Head(new) \in Range(citations) THEN citations
                      ELSE Append(citations, Head(new)),
                      Tail(new))

RECURSIVE RunTools(_, _)
\* lines 174-186 over the first n tools, given what each call did
RunTools(did, n) ==
    IF n = 0 THEN [tool_contexts |-> <<>>, citations |-> <<>>]
    ELSE LET acc == RunTools(did, n - 1)
             result == did[n]
         IN  IF result.raised THEN acc
             ELSE IF result.v.isNone THEN acc
             ELSE [tool_contexts |-> Append(acc.tool_contexts, result.v.content),
                   citations |-> AddCitations(acc.citations, result.v.citations)]

\* what llm_backend.generate can do: return a str, return an iterable of
\* str, or raise
Reply == <<"o","k">>
LLMOutcomes ==
    { Ok([isStr |-> TRUE, str |-> Reply]),
      Ok([isStr |-> FALSE, chunks |-> << <<"o">>, <<"k">> >>]),
      Raise("RuntimeError") }

\* lines 190-193
ReplyText(response) ==
    IF response.isStr THEN response.str ELSE Join(<<>>, response.chunks)

\* a variant that leaves the sources out
FormattedReply_bare(reply_text, citations) == reply_text

\* lines 195-197
FormattedReply(reply_text, citations) ==
    IF citations /= <<>>
    THEN reply_text \o SourcesInfix \o Join(<<",", " ">>, citations)
    ELSE reply_text

\* the caller goes on when the memory method it called has returned
Resume(th) ==
    LET out == [th EXCEPT !.mem = "none", !.mem_op = "none", !.mem_arg = NoMessage,
                          !.excess = 0]
    IN  CASE th.op \in {"append", "clear"} -> Idle(th.n)
          [] th.op = "generate_reply" /\ th.pc = "get" -> [out EXCEPT !.pc = "tools"]
          [] th.op = "generate_reply" /\ th.pc = "append_user" ->
                EnterMemory([out EXCEPT !.pc = "append_assistant"], "append",
                            MemoryMessage("assistant", th.reply_text, th.citations))
          [] th.op = "generate_reply" /\ th.pc = "append_assistant" ->
                [out EXCEPT !.pc = "returned",
                            !.returned = Ok([reply |-> FormattedReply(th.reply_text,
                                                                     th.citations),
                                             citations |-> th.citations])]

\* ConversationMemory.get under the lock, and the lock's release
memory_get(t) ==
    /\ threads[t].mem = "body" /\ threads[t].mem_op = "get"
    /\ threads' = [threads EXCEPT
                      ![t] = Resume([@ EXCEPT !.history = History(threads[t].session)])]
    /\ _lock' = "free"
    /\ UNCHANGED <<max_messages, _messages, appended, elsewhere>>

\* ConversationMemory.append under the lock, lines 142-144
memory_append(t) ==
    /\ threads[t].mem = "body" /\ threads[t].mem_op = "append"
    /\ LET session_id == threads[t].session
           history == Append(History(session_id), threads[t].mem_arg)
       IN  /\ _messages' = [x \in DOMAIN _messages \cup {session_id} |->
                               IF x = session_id THEN history ELSE _messages[x]]
           /\ threads' = [threads EXCEPT ![t].mem = "trim",
                                         ![t].excess = Len(history) - max_messages]
           /\ appended' = [appended EXCEPT
                              ![session_id] = Append(@, [message |-> threads[t].mem_arg,
                                                         by |-> <<t, threads[t].n>>])]
    /\ UNCHANGED <<max_messages, _lock, elsewhere>>

\* lines 145-146, and the lock's release; history is the list that
\* _messages holds for the session
memory_trim(t) ==
    /\ threads[t].mem = "trim"
    /\ LET session_id == threads[t].session
           excess == threads[t].excess
       IN  _messages' = IF excess > 0 /\ session_id \in DOMAIN _messages
                        THEN [_messages EXCEPT
                                 ![session_id] = SubSeq(@, excess + 1, Len(@))]
                        ELSE _messages
    /\ threads' = [threads EXCEPT ![t] = Resume(@)]
    /\ _lock' = "free"
    /\ UNCHANGED <<max_messages, appended, elsewhere>>

\* ConversationMemory.clear under the lock, and the lock's release
memory_clear(t) ==
    /\ threads[t].mem = "body" /\ threads[t].mem_op = "clear"
    /\ LET session_id == threads[t].session
       IN  /\ _messages' = [x \in DOMAIN _messages \ {session_id} |-> _messages[x]]
           /\ appended' = [appended EXCEPT ![session_id] = <<>>]
    /\ threads' = [threads EXCEPT ![t] = Resume(@)]
    /\ _lock' = "free"
    /\ UNCHANGED <<max_messages, elsewhere>>

\* contents of the messages appended directly, and messages sent to the chat
Contents == { <<"m","0">>, <<"m","1">> }
ChatMessages == { <<"h","i">>, <<" ","\n">>, <<>> }

\* a thread calls memory.append(session_id, message)
append_call(t) ==
    /\ threads[t].pc = "idle" /\ CallsMade < MaxCalls
    /\ \E session_id \in Sessions, content \in Contents :
          threads' = [threads EXCEPT
                         ![t] = EnterMemory([Idle(@.n + 1) EXCEPT !.op = "append",
                                                 !.pc = "call", !.session = session_id],
                                            "append",
                                            MemoryMessage("user", content, <<>>))]
    /\ UNCHANGED <<max_messages, _messages, _lock, appended, elsewhere>>

\* a thread calls memory.clear(session_id)
clear_call(t) ==
    /\ threads[t].pc = "idle" /\ CallsMade < MaxCalls
    /\ \E session_id \in Sessions :
          threads' = [threads EXCEPT
                         ![t] = EnterMemory([Idle(@.n + 1) EXCEPT !.op = "clear",
                                                 !.pc = "call", !.session = session_id],
                                            "clear", NoMessage)]
    /\ UNCHANGED <<max_messages, _messages, _lock, appended, elsewhere>>

InitService ==
    /\ probe = NoProbe
    /\ documents_map = EmptyMap /\ bm25 = FALSE /\ bm25_ids = <<>>
    /\ NoCall /\ NoIndex
    /\ max_messages \in 1..MaxMessages
    /\ _messages = EmptyMap /\ _lock = "free"
    /\ threads = [t \in Threads |-> Idle(0)]
    /\ appended = [s \in Sessions |-> <<>>]

NextMemory ==
    \E t \in Threads :
        \/ append_call(t)
        \/ clear_call(t)
        \/ acquire(t)
        \/ memory_append(t)
        \/ memory_trim(t)
        \/ memory_clear(t)

SpecMemory == InitService /\ [][NextMemory]_vars

\* the last n elements of a sequence
LastN(seq, n) == SubSeq(seq, Len(seq) - n + 1, Len(seq))
AppendedMessages(s) == [i \in DOMAIN appended[s] |-> appended[s][i].message]

(***************************************************************************)
(* C18: whenever no thread is inside a memory method (the lock is free),   *)
(* each session's history has at most max_messages entries and is exactly  *)
(* the last min(n, max_messages) of the n messages appended to the session *)
(* since its last clear, in the order they were appended.                  *)
(***************************************************************************)
C18_BoundedKeepsNewest ==
    _lock = "free" =>
        \A s \in Sessions :
            /\ Len(History(s)) <= max_messages
            /\ History(s) = LastN(AppendedMessages(s),
                                  Min(Len(appended[s]), max_messages))

\* three appends to one session under max_messages = 2, from two threads:
\* the oldest is gone, the two newest are kept in order
C18_Witness ==
    /\ _lock = "free"
    /\ max_messages = 2
    /\ Len(appended["s1"]) = 3
    /\ { appended["s1"][i].by[1] : i \in 1..3 } = Threads
    /\ History("s1") = <<appended["s1"][2].message, appended["s1"][3].message>>
    /\ appended["s1"][1].message /= appended["s1"][2].message

(***************************************************************************)
(* The chat: chat_endpoint and ConversationManager.generate_reply.         *)
(***************************************************************************)
\* the call is rejected before anything else is done
Rejected(th, op, session_id, message, exc) ==
    [Idle(th.n + 1) EXCEPT !.op = op, !.pc = "returned", !.session = session_id,
                           !.message = message, !.returned = Raise(exc)]

\* line 173: generate_reply has accepted the message and calls memory.get
Accepted(th, session_id, message) ==
    EnterMemory([Idle(th.n + 1) EXCEPT !.op = "generate_reply", !.pc = "get",
                                       !.session = session_id, !.message = message],
                "get", NoMessage)

\* POST /chat: an empty message is answered 400; any other is handed to
\* generate_reply on a pool thread, whose reply and citations are the
\* response's
chat_endpoint(t) ==
    /\ threads[t].pc = "idle" /\ CallsMade < MaxChats
    /\ \E session_id \in Sessions, message \in ChatMessages :
          threads' = [threads EXCEPT
                         ![t] = IF Strip(message) = <<>>
                                THEN Rejected(@, "chat_endpoint", session_id, message,
                                              "HTTPException(400, message must not be empty)")
                                ELSE Accepted(@, session_id, message)]
    /\ UNCHANGED <<max_messages, _messages, _lock, appended, elsewhere>>

\* a direct call of generate_reply, lines 170-173
generate_reply(t) ==
    /\ threads[t].pc = "idle" /\ CallsMade < MaxChats
    /\ \E session_id \in Sessions, message \in ChatMessages :
          threads' = [threads EXCEPT
                         ![t] = IF Strip(message) = <<>>
                                THEN Rejected(@, "generate_reply", session_id, message,
                                              "ValueError(message must not be empty)")
                                ELSE Accepted(@, session_id, message)]
    /\ UNCHANGED <<max_messages, _messages, _lock, appended, elsewhere>>

\* what the calls of the registered tools, in order, can do
ToolRuns == { did \in [DOMAIN Tools -> UNION { ToolOutcomes(Tools[i]) : i \in DOMAIN Tools }] :
                \A i \in DOMAIN Tools : did[i] \in ToolOutcomes(Tools[i]) }

\* lines 174-186: every tool is called; one that raises is passed over
run_tools(t) ==
    /\ threads[t].pc = "tools" /\ threads[t].mem = "none"
    /\ \E ran \in { RunTools(did, Len(Tools)) : did \in ToolRuns } :
          threads' = [threads EXCEPT ![t].pc = "llm",
                                     ![t].tool_contexts = ran.tool_contexts,
                                     ![t].citations = ran.citations,
                                     ![t].tool_calls = Len(Tools)]
    /\ UNCHANGED <<max_messages, _messages, _lock, appended, elsewhere>>

\* a variant that stores the user message before the LLM is called
llm_generate_stores_first(t) ==
    /\ threads[t].pc = "llm" /\ _lock = "free"
    /\ LET th == threads[t]
           prompt == _build_prompt(th.history, th.message, th.tool_contexts)
           called == [th EXCEPT !.prompt = prompt, !.llm_calls = 1]
           stored == Append(History(th.session), MemoryMessage("user", th.message, <<>>))
       IN  /\ _messages' = [x \in DOMAIN _messages \cup {th.session} |->
                               IF x = th.session THEN stored ELSE _messages[x]]
           /\ appended' = [appended EXCEPT
                              ![th.session] =
                                  Append(@, [message |-> MemoryMessage("user", th.message, <<>>),
                                             by |-> <<t, th.n>>])]
           /\ \E response \in LLMOutcomes :
                 threads' = [threads EXCEPT
                     ![t] = IF response.raised
                            THEN [called EXCEPT !.pc = "returned",
                                                !.returned = Raise(response.exc)]
                            ELSE EnterMemory([called EXCEPT !.pc = "append_user",
                                                  !.reply_text = ReplyText(response.v)],
                                             "append",
                                             MemoryMessage("user", th.message, <<>>))]
    /\ UNCHANGED <<max_messages, _lock, elsewhere>>

\* lines 188-199: the prompt is built and the LLM called; when it returns,
\* the reply text is taken and memory.append called for the user message
llm_generate(t) ==
    /\ threads[t].pc = "llm"
    /\ LET th == threads[t]
           prompt == _build_prompt(th.history, th.message, th.tool_contexts)
           called == [th EXCEPT !.prompt = prompt, !.llm_calls = 1]
       IN  \E response \in LLMOutcomes :
              threads' = [threads EXCEPT
                  ![t] = IF response.raised
                         THEN [called EXCEPT !.pc = "returned",
                                             !.returned = Raise(response.exc)]
                         ELSE EnterMemory([called EXCEPT !.pc = "append_user",
                                               !.reply_text = ReplyText(response.v)],
                                          "append",
                                          MemoryMessage("user", th.message, <<>>))]
    /\ UNCHANGED <<max_messages, _messages, _lock, appended, elsewhere>>

\* the caller has the reply or the exception
returns(t) ==
    /\ threads[t].pc = "returned"
    /\ threads' = [threads EXCEPT ![t] = Idle(@.n)]
    /\ UNCHANGED <<max_messages, _messages, _lock, appended, elsewhere>>

NextChat ==
    \E t \in Threads :
        \/ chat_endpoint(t)
        \/ generate_reply(t)
        \/ acquire(t)
        \/ memory_get(t)
        \/ run_tools(t)
        \/ llm_generate(t)
        \/ memory_append(t)
        \/ memory_trim(t)
        \/ returns(t)

\* the chat's memory keeps MaxMessages messages per session
InitChat == InitService /\ max_messages = MaxMessages

SpecChat == InitChat /\ [][NextChat]_vars

\* the call thread t runs, or ran last
CallOf(t) == <<t, threads[t].n>>
\* where in a session's appended messages the call's own are
AppendedBy(call, s) == { i \in DOMAIN appended[s] : appended[s][i].by = call }
\* generate_reply has returned its reply to thread t
Replied(t) ==
    /\ threads[t].op = "generate_reply"
    /\ threads[t].pc = "returned"
    /\ ~ threads[t].returned.raised
\* no element twice
Distinct(seq) == \A i, j \in DOMAIN seq : i /= j => seq[i] /= seq[j]
\* the ToolResults the tools can return
ToolResults ==
    { o.v : o \in { x \in UNION { ToolOutcomes(Tools[i]) : i \in DOMAIN Tools } :
                      ~ x.raised /\ ~ x.v.isNone } }
\* the citations of the tool results whose content went into the context
CitedBy(tool_contexts) ==
    UNION { Range(r.citations) : r \in { x \in ToolResults : x.content \in Range(tool_contexts) } }
SourcesWord == <<"S","o","u","r","c","e","s",":">>

(***************************************************************************)
(* C19: when generate_reply has returned a reply, the call has appended    *)
(* exactly two messages to its session and none to another: first the      *)
(* user message, then the assistant message whose content is the raw reply *)
(* text and whose citations are the tools' citations, each once.  The LLM  *)
(* was invoked once, with a prompt that contains every tool context, and   *)
(* no call appends before its LLM call has returned.  The returned reply   *)
(* is the raw text followed by the Sources suffix when there are           *)
(* citations; the stored content carries no such suffix.                   *)
(***************************************************************************)
C19_ReplyAppendsUserThenAssistant ==
    \A t \in Threads :
        /\ (threads[t].op = "generate_reply" /\ threads[t].llm_calls = 0)
              => \A s \in Sessions : AppendedBy(CallOf(t), s) = {}
        /\ Replied(t) =>
              LET th == threads[t]
                  own == AppendedBy(CallOf(t), th.session)
                  first == CHOOSE i \in own : \A j \in own : i <= j
                  second == CHOOSE j \in own : \A i \in own : i <= j
              IN  /\ \A s \in Sessions \ {th.session} : AppendedBy(CallOf(t), s) = {}
                  /\ Cardinality(own) = 2
                  /\ appended[th.session][first].message =
                        MemoryMessage("user", th.message, <<>>)
                  /\ appended[th.session][second].message =
                        MemoryMessage("assistant", th.reply_text, th.citations)
                  /\ Distinct(th.citations)
                  /\ Range(th.citations) = CitedBy(th.tool_contexts)
                  /\ th.tool_calls = Len(Tools) /\ th.llm_calls = 1
                  /\ \A i \in DOMAIN th.tool_contexts :
                        Contains(th.tool_contexts[i], th.prompt)
                  /\ th.returned.v.citations = th.citations
                  /\ th.returned.v.reply =
                        IF th.citations = <<>> THEN th.reply_text
                        ELSE th.reply_text \o SourcesInfix
                                 \o Join(<<",", " ">>, th.citations)
                  /\ ~ Contains(SourcesWord, th.reply_text)

\* both tools returned a result, d2 cited by both: the reply carries the
\* three sources, the session holds the user message and the raw reply
C19_Witness ==
    /\ Replied("t1")
    /\ threads["t1"].session = "s1"
    /\ threads["t1"].tool_contexts = << <<"c","A">>, <<"c","B">> >>
    /\ threads["t1"].citations = << <<"d","1">>, <<"d","2">>, <<"d","3">> >>
    /\ threads["t1"].returned.v.reply =
          <<"o","k","\n","\n","S","o","u","r","c","e","s",":"," ",
            "d","1",","," ","d","2",","," ","d","3">>
    /\ max_messages = 2
    /\ History("s1") = << MemoryMessage("user", <<"h","i">>, <<>>),
                          MemoryMessage("assistant", <<"o","k">>,
                                        threads["t1"].citations) >>
    /\ History("s2") = <<>>
    /\ Contains(<<"R","e","l","e","v","a","n","t"," ","c","o","n","t","e","x","t",":","\n",
                  "c","A","\n","c","B","\n","U","s","e","r",":"," ","h","i","\n",
                  "A","s","s","i","s","t","a","n","t",":">>, threads["t1"].prompt)

\* every character of the message is whitespace, or there is none
Blank(message) == \A i \in DOMAIN message : IsSpace(message[i])
\* thread t is in a chat call, or has its outcome in hand
InChat(t) == threads[t].op \in {"chat_endpoint", "generate_reply"}

(***************************************************************************)
(* C20: a chat call whose message is empty or whitespace only is rejected, *)
(* with HTTP 400 'message must not be empty' at the endpoint and with      *)
(* ValueError in generate_reply, and has no effect: it calls no tool and   *)
(* no LLM, appends nothing, and the rejecting step leaves every history    *)
(* as it was.                                                              *)
(***************************************************************************)
C20_EmptyMessageRejected ==
    /\ [](\A t \in Threads :
             (InChat(t) /\ Blank(threads[t].message)) =>
                 /\ threads[t].pc = "returned"
                 /\ threads[t].returned.raised
                 /\ threads[t].returned.exc =
                       IF threads[t].op = "chat_endpoint"
                       THEN "HTTPException(400, message must not be empty)"
                       ELSE "ValueError(message must not be empty)"
                 /\ threads[t].tool_calls = 0 /\ threads[t].llm_calls = 0
                 /\ threads[t].mem = "none"
                 /\ \A s \in Sessions : AppendedBy(CallOf(t), s) = {})
    /\ [][\A t \in Threads :
             (InChat(t)' /\ Blank(threads'[t].message) /\ threads[t].pc = "idle")
                 => (_messages' = _messages /\ appended' = appended)]_vars

\* a whitespace-only message at the endpoint and an empty one in a direct
\* call, both rejected, the histories empty as before
C20_Witness ==
    /\ threads["t1"].op = "chat_endpoint"
    /\ threads["t1"].message = <<" ", "\n">>
    /\ threads["t1"].returned = Raise("HTTPException(400, message must not be empty)")
    /\ threads["t2"].op = "generate_reply"
    /\ threads["t2"].message = <<>>
    /\ threads["t2"].returned = Raise("ValueError(message must not be empty)")
    /\ _messages = EmptyMap

(***************************************************************************)
(* The orchestrator (chatbot/orchestrator.py) and its moderation filters   *)
(* (chatbot/filters.py).  A compiled pattern is given by the literals its  *)
(* alternations and optional parts expand to and by whether it stands      *)
(* between two \b; re.IGNORECASE is the comparison of the lowered message  *)
(* with the lowercase literal.                                             *)
(***************************************************************************)
MaxFilters == 2

\* re.compile(pattern, re.IGNORECASE)
Pattern(bounded, literals) == [bounded |-> bounded, literals |-> literals]

\* \b at offset i of s (between s[i - 1] and s[i]): exactly one side is \w
WordBoundary(s, i) ==
    (i > 1 /\ IsWordChar(s[i - 1])) /= (i <= Len(s) /\ IsWordChar(s[i]))

\* regex.search(message)
RegexSearch(regex, message) ==
    LET lowered == Lower(message) IN
    \E lit \in regex.literals :
       \E i \in 1..(Len(message) - Len(lit) + 1) :
          /\ SubSeq(lowered, i, i + Len(lit) - 1) = lit
          /\ regex.bounded =>
                WordBoundary(message, i) /\ WordBoundary(message, i + Len(lit))

ToxicityFilter ==
    [patterns |-> << Pattern(TRUE, { <<"h","a","t","e">> }),
                     Pattern(TRUE, { <<"k","y","s">> }),
                     Pattern(TRUE, { <<"i","d","i","o","t">> }),
                     Pattern(TRUE, { <<"v","i","o","l","e","n","t">> }) >>,
     description |-> "Toxic language detected."]

JailbreakFilter ==
    [patterns |-> << Pattern(FALSE, { <<"i","g","n","o","r","e"," ","a","l","l"," ","p","r","e","v","i","o","u","s"," ","i","n","s","t","r","u","c","t","i","o","n","s">>,
                                      <<"i","g","n","o","r","e"," ","a","l","l"," ","p","r","i","o","r"," ","i","n","s","t","r","u","c","t","i","o","n","s">> }),
                     Pattern(FALSE, { <<"p","r","e","t","e","n","d"," ","y","o","u"," ","a","r","e"," ","a","n"," ","e","v","i","l"," ","a","i">>,
                                      <<"r","o","l","e","p","l","a","y"," ","y","o","u"," ","a","r","e"," ","a","n"," ","e","v","i","l"," ","a","i">>,
                                      <<"r","o","l","e","-","p","l","a","y"," ","y","o","u"," ","a","r","e"," ","a","n"," ","e","v","i","l"," ","a","i">>,
                                      <<"r","o","l","e"," ","p","l","a","y"," ","y","o","u"," ","a","r","e"," ","a","n"," ","e","v","i","l"," ","a","i">> }),
                     Pattern(FALSE, { <<"d","i","s","a","b","l","e"," ","s","a","f","e","t","y">>, <<"t","u","r","n"," ","o","f","f"," ","s","a","f","e","t","y">> }),
                     Pattern(FALSE, { <<"s","y","s","t","e","m"," ","o","v","e","r","r","i","d","e">> }) >>,
     description |-> "Potential jailbreak attempt blocked."]

Exception(type, arg) == [type |-> type, arg |-> arg]

\* BaseFilter.validate
BaseFilter_validate(filter, message) ==
    IF \E i \in DOMAIN filter.patterns : RegexSearch(filter.patterns[i], message)
    THEN Raise(Exception("ModerationException", filter.description))
    ELSE Ok("None")

RECURSIVE ValidateFrom(_, _, _)
ValidateFrom(filter_list, i, message) ==
    IF i > Len(filter_list)
    THEN Ok("None")
    ELSE LET validated == BaseFilter_validate(filter_list[i], message)
         IN  IF validated.raised THEN validated
             ELSE ValidateFrom(filter_list, i + 1, message)

\* ModerationPipeline.validate: the filters in turn, the first exception ends it
ModerationPipeline_validate(moderation, message) ==
    ValidateFrom(moderation.filters, 1, message)

\* ModerationPipeline(filters); the object is truthy whatever its list
ModerationPipeline(filter_list) == [isNone |-> FALSE, filters |-> filter_list]

ToolNames == {"gym_strategy", "evolution_lookup", "metadata_lookup", "general_search"}

\* the keyword tests of route, first match wins
tool_for_metadata_first(normalized) ==
    IF \E keyword \in { <<"t","y","p","e">>, <<"w","e","a","k","n","e","s","s">>, <<"a","d","v","a","n","t","a","g","e">> } : Contains(keyword, normalized)
    THEN "metadata_lookup"
    ELSE IF \E keyword \in { <<"g","y","m">>, <<"b","a","t","t","l","e"," ","s","t","r","a","t","e","g","y">> } : Contains(keyword, normalized)
    THEN "gym_strategy"
    ELSE IF \E keyword \in { <<"e","v","o","l","u","t","i","o","n">>, <<"e","v","o","l","v","e">>, <<"e","v","o","l","v","e","s">> } : Contains(keyword, normalized)
    THEN "evolution_lookup"
    ELSE "general_search"

tool_for(normalized) ==
    IF \E keyword \in { <<"g","y","m">>, <<"b","a","t","t","l","e"," ","s","t","r","a","t","e","g","y">> } : Contains(keyword, normalized)
    THEN "gym_strategy"
    ELSE IF \E keyword \in { <<"e","v","o","l","u","t","i","o","n">>, <<"e","v","o","l","v","e">>, <<"e","v","o","l","v","e","s">> } : Contains(keyword, normalized)
    THEN "evolution_lookup"
    ELSE IF \E keyword \in { <<"t","y","p","e">>, <<"w","e","a","k","n","e","s","s">>, <<"a","d","v","a","n","t","a","g","e">> } : Contains(keyword, normalized)
    THEN "metadata_lookup"
    ELSE "general_search"

\* Orchestrator.route
route_unmoderated(orch, message) == Ok(tool_for(Lower(message)))

route(orch, message) ==
    LET normalized == Lower(message)
        validated == IF orch.moderation.isNone THEN Ok("None")
                     ELSE ModerationPipeline_validate(orch.moderation, message)
    IN  IF validated.raised THEN validated ELSE Ok(tool_for(normalized))

\* what a registered tool does with a message: the default returns "", a
\* tool of the caller's returns its own answer or raises
ToolReturns(tool, name) ==
    IF tool = "noop" THEN { Ok("") }
    ELSE { Ok(name), Raise(Exception("RuntimeError", name)) }

\* dict.update
Update(d, other) ==
    [k \in DOMAIN d \cup DOMAIN other |-> IF k \in DOMAIN other THEN other[k] ELSE d[k]]

\* Orchestrator.with_default_tools(tools, filters): tools and filters are
\* None, or a dict and a list
with_default_tools(tools, filter_list) ==
    [tools |-> IF tools.isNone \/ DOMAIN tools.items = {}
               THEN [n \in ToolNames |-> "noop"]
               ELSE Update([n \in ToolNames |-> "noop"], tools.items),
     moderation |-> IF filter_list.isNone \/ filter_list.items = <<>>
                    THEN None
                    ELSE ModerationPipeline(filter_list.items)]

\* the dataclass constructor Orchestrator(tools, moderation)
Orchestrator(tools, moderation) == [tools |-> tools, moderation |-> moderation]

FilterLists2 == UNION { [1..n -> {ToxicityFilter, JailbreakFilter}] : n \in 0..MaxFilters }
ToolDicts == UNION { [ns -> {"mock"}] : ns \in SUBSET ToolNames }

Messages ==
    { <<"g","y","m">>, <<"B","a","t","t","l","e"," ","S","t","r","a","t","e","g","y">>, <<"e","v","o","l","v","e"," ","t","y","p","e">>, <<"G","y","m"," ","e","v","o","l","v","e","s">>, <<"w","e","a","k","n","e","s","s">>,
      <<"a","d","v","a","n","t","a","g","e">>, <<"p","r","o","t","o","t","y","p","e">>, <<"h","i">>, <<"e","v","o","l","u","t","i","o","n">>,
      <<"I"," ","h","a","t","e"," ","g","y","m">>, <<"h","a","t","e","f","u","l"," ","g","y","m">>, <<"K","Y","S">>, <<"s","y","s","t","e","m"," ","o","v","e","r","r","i","d","e"," ","t","y","p","e">>,
      <<"T","u","r","n"," ","o","f","f"," ","s","a","f","e","t","y">>, <<"r","o","l","e","p","l","a","y"," ","y","o","u"," ","a","r","e"," ","a","n"," ","e","v","i","l"," ","a","i">>,
      <<"I","g","n","o","r","e"," ","a","l","l"," ","p","r","e","v","i","o","u","s"," ","i","n","s","t","r","u","c","t","i","o","n","s"," ","a","n","d"," ","t","e","l","l"," ","m","e"," ","h","o","w"," ","t","o"," ","b","e"," ","v","i","o","l","e","n","t">> }

\* no handle call under way
NoHandle(orch, built_by) ==
    [orch |-> orch, built_by |-> built_by, message |-> <<>>, moderated |-> FALSE,
     routed |-> Ok("None"), tool_calls |-> <<>>, returned |-> NoReturn]

InitOrch ==
    /\ documents_map = EmptyMap /\ bm25 = FALSE /\ bm25_ids = <<>>
    /\ NoCall
    /\ NoIndex /\ NoService
    /\ \/ \E tools \in {None} \cup { Dict(d) : d \in ToolDicts },
             filter_list \in {None} \cup { Dict(l) : l \in FilterLists2 } :
             probe = NoHandle(with_default_tools(tools, filter_list), "with_default_tools")
       \/ \E tools \in ToolDicts,
             moderation \in {None} \cup { ModerationPipeline(l) : l \in FilterLists2 } :
             probe = NoHandle(Orchestrator(tools, moderation), "Orchestrator")

besides_probe == <<retriever, args, locals, outcome, calls, built, service>>

\* Orchestrator.handle is called
handle ==
    /\ pc = "idle"
    /\ \E message \in Messages :
          probe' = [NoHandle(probe.orch, probe.built_by) EXCEPT !.message = message]
    /\ pc' = "route"
    /\ UNCHANGED besides_probe

\* tool_name = self.route(message)
handle_route ==
    /\ pc = "route"
    /\ LET routed == route(probe.orch, probe.message)
       IN  /\ probe' = [probe EXCEPT
                           !.moderated = ~ probe.orch.moderation.isNone,
                           !.routed = routed,
                           !.returned = IF routed.raised THEN routed ELSE NoReturn]
           /\ pc' = IF routed.raised THEN "handled" ELSE "tool"
    /\ UNCHANGED besides_probe

\* tool = self.tools.get(tool_name), then KeyError or tool(message)
handle_tool ==
    /\ pc = "tool"
    /\ LET tool_name == probe.routed.v IN
       IF tool_name \notin DOMAIN probe.orch.tools
       THEN probe' = [probe EXCEPT
                         !.returned = Raise(Exception("KeyError", tool_name))]
       ELSE \E r \in ToolReturns(probe.orch.tools[tool_name], tool_name) :
               probe' = [probe EXCEPT
                            !.tool_calls = Append(@, [name |-> tool_name,
                                                      message |-> probe.message,
                                                      outcome |-> r]),
                            !.returned = r]
    /\ pc' = "handled"
    /\ UNCHANGED besides_probe

\* handle has returned or raised; the orchestrator is as it was built
handle_ends ==
    /\ pc = "handled"
    /\ probe' = NoHandle(probe.orch, probe.built_by)
    /\ pc' = "idle"
    /\ UNCHANGED besides_probe

NextOrch ==
    \/ handle
    \/ handle_route
    \/ handle_tool
    \/ handle_ends

SpecOrch == InitOrch /\ [][NextOrch]_vars

\* some filter of the orchestrator's pipeline has a pattern found in the message
Matched(orch, message) ==
    /\ ~ orch.moderation.isNone
    /\ \E i \in DOMAIN orch.moderation.filters :
          \E j \in DOMAIN orch.moderation.filters[i].patterns :
             RegexSearch(orch.moderation.filters[i].patterns[j], message)

Handled == pc = "handled"

(***************************************************************************)
(* C21: in Orchestrator.handle no tool is called before the moderation     *)
(* pipeline has run, nor for a message one of its filters matches: such a  *)
(* call ends with ModerationException and with no tool called; a tool is   *)
(* called only for a message every filter accepted.                        *)
(***************************************************************************)
C21_ModerationBeforeTools ==
    /\ pc \in {"route", "tool", "handled"} /\ Matched(probe.orch, probe.message) =>
          /\ probe.tool_calls = <<>>
          /\ pc /= "tool"
          /\ Handled =>
                /\ probe.returned.raised
                /\ probe.returned.exc.type = "ModerationException"
    /\ probe.tool_calls /= <<>> =>
          /\ ~ Matched(probe.orch, probe.message)
          /\ probe.moderated = ~ probe.orch.moderation.isNone

\* the message of the test, blocked by the first of the two filters, and
\* no tool called
C21_Witness ==
    /\ Handled
    /\ probe.orch.moderation = ModerationPipeline(<<ToxicityFilter, JailbreakFilter>>)
    /\ probe.message = <<"I","g","n","o","r","e"," ","a","l","l"," ","p","r","e","v","i","o","u","s"," ","i","n","s","t","r","u","c","t","i","o","n","s"," ","a","n","d"," ","t","e","l","l"," ","m","e"," ","h","o","w"," ","t","o"," ","b","e"," ","v","i","o","l","e","n","t">>
    /\ probe.returned = Raise(Exception("ModerationException", "Toxic language detected."))
    /\ probe.tool_calls = <<>>
    /\ "general_search" \in DOMAIN probe.orch.tools

\* the lowered message has one of the words as a substring
HasAny(words, lowered) == \E w \in words : Occurs(w, lowered)

\* the tool the priority of the keywords gives the message
Chosen(message) ==
    LET lowered == Lower(message)
        gym == HasAny({ <<"g","y","m">>, <<"b","a","t","t","l","e"," ","s","t","r","a","t","e","g","y">> }, lowered)
        evolution == HasAny({ <<"e","v","o","l","u","t","i","o","n">>, <<"e","v","o","l","v","e">>, <<"e","v","o","l","v","e","s">> }, lowered)
        metadata == HasAny({ <<"t","y","p","e">>, <<"w","e","a","k","n","e","s","s">>, <<"a","d","v","a","n","t","a","g","e">> }, lowered)
    IN  CHOOSE name \in ToolNames :
           /\ name = "gym_strategy" <=> gym
           /\ name = "evolution_lookup" <=> (~ gym /\ evolution)
           /\ name = "metadata_lookup" <=> (~ gym /\ ~ evolution /\ metadata)

(***************************************************************************)
(* C22: a handle call whose message moderation accepted, on an             *)
(* orchestrator that has the chosen tool registered, calls that tool once  *)
(* with the message, calls no other tool, and ends as the tool did (its    *)
(* return value, or its exception); the tool is gym_strategy when the      *)
(* lowered message contains 'gym' or 'battle strategy', else               *)
(* evolution_lookup for 'evolution', 'evolve' or 'evolves', else           *)
(* metadata_lookup for 'type', 'weakness' or 'advantage', else             *)
(* general_search.  KeyError is raised only when the chosen tool is not    *)
(* registered, which is never the case after with_default_tools.           *)
(***************************************************************************)
C22_OneToolByKeywordPriority ==
    /\ probe.built_by = "with_default_tools" => ToolNames \subseteq DOMAIN probe.orch.tools
    /\ Handled /\ ~ Matched(probe.orch, probe.message) =>
          IF Chosen(probe.message) \in DOMAIN probe.orch.tools
          THEN /\ Len(probe.tool_calls) = 1
               /\ probe.tool_calls[1].name = Chosen(probe.message)
               /\ probe.tool_calls[1].message = probe.message
               /\ probe.returned = probe.tool_calls[1].outcome
               /\ probe.returned \in
                     ToolReturns(probe.orch.tools[Chosen(probe.message)],
                                 Chosen(probe.message))
          ELSE /\ probe.tool_calls = <<>>
               /\ probe.returned = Raise(Exception("KeyError", Chosen(probe.message)))
               /\ probe.built_by /= "with_default_tools"

\* 'Gym evolves' has keywords of two tools and goes to gym_strategy, the
\* caller's tool, whose answer is returned; the other tools are defaults
C22_Witness ==
    /\ Handled
    /\ probe.built_by = "with_default_tools"
    /\ probe.orch.tools["gym_strategy"] = "mock"
    /\ probe.orch.tools["evolution_lookup"] = "noop"
    /\ ~ probe.orch.moderation.isNone
    /\ probe.message = <<"G","y","m"," ","e","v","o","l","v","e","s">>
    /\ Len(probe.tool_calls) = 1
    /\ probe.tool_calls[1].name = "gym_strategy"
    /\ probe.returned = Ok("gym_strategy")

\* the snapshot documents whose metadata pass the filter predicate
PassingIds ==
    { id \in DOMAIN documents_map :
         _metadata_matches(documents_map[id].metadata, filters) }

(***************************************************************************)
(* C23: with the scorer, the lexical branch scores exactly the snapshot    *)
(* documents that pass the filter predicate, returned by the semantic      *)
(* branch or not, and each of them is an entry of the fused list that is   *)
(* sorted and cut to limit.                                                *)
(***************************************************************************)
C23_LexicalScoresEveryPassingDocument ==
    Fused =>
       /\ LexicalIds = PassingIds
       /\ PassingIds \subseteq Ids(combined)

\* under the filter type = fire, document a passes and b does not; the
\* semantic branch did not return a, and a is in the list returned
C23_Witness ==
    /\ Fused /\ outcome = "ok"
    /\ ~ IsFalsy(filters)
    /\ PassingIds = {"a"}
    /\ "a" \notin SemanticIds /\ SemanticIds /= {}
    /\ "a" \in ResultIds
    /\ "b" \notin LexicalIds

\* the two normalised scores of an id, as lines 160-165 compute them
SemanticNorm(id) ==
    RDiv(SemanticScore(id), Or1(MaxOr1({ scores[i].score : i \in DOMAIN scores })))
LexicalNorm(id) ==
    RDiv(LexicalScore(id), Or1(MaxOr1({ bm25_scores[d] : d \in LexicalIds })))
InUnit(x) == RLe(RZero, x) /\ RLe(x, ROne)

(***************************************************************************)
(* C24: with the scorer, the fused score of every candidate is             *)
(* alpha * s + (1 - alpha) * b, where s and b are its raw scores divided   *)
(* by the maximum raw score of their branch (by 1 when that maximum is 0), *)
(* and s and b both lie in [0,1].                                          *)
(***************************************************************************)
C24_NormalisedInUnitInterval ==
    Fused =>
       \A i \in DOMAIN combined :
          /\ combined[i].score =
                RAdd(RMul(alpha, SemanticNorm(combined[i].id)),
                     RMul(RSub(ROne, alpha), LexicalNorm(combined[i].id)))
          /\ InUnit(SemanticNorm(combined[i].id))
          /\ InUnit(LexicalNorm(combined[i].id))

\* the part of it that holds: the division by the branch's maximum, by 1 when
\* that is 0, and the semantic branch in [0,1]
C24_DividedByOwnMaximum ==
    Fused =>
       \A i \in DOMAIN combined :
          /\ combined[i].score =
                RAdd(RMul(alpha, SemanticNorm(combined[i].id)),
                     RMul(RSub(ROne, alpha), LexicalNorm(combined[i].id)))
          /\ InUnit(SemanticNorm(combined[i].id))
          /\ (\A d \in LexicalIds : RLe(RZero, bm25_scores[d]))
                => InUnit(LexicalNorm(combined[i].id))

(***************************************************************************)
(* C25: whether the scorer exists is fixed by the construction: no step of *)
(* a hybrid_search, search or facet_counts call changes self._bm25 or      *)
(* self._bm25_ids; and without the scorer no call reaches get_scores.      *)
(***************************************************************************)
C25_LexicalFlagPermanent ==
    /\ [][bm25' = bm25 /\ bm25_ids' = bm25_ids]_vars
    /\ [](~ bm25 => (score_calls = 0 /\ pc /= "score" /\ bm25_scores = EmptyMap))

\* a snapshot is loaded but the scorer was not built (not asked for, or not
\* installed); a hybrid_search call has returned a result without get_scores
C25_Witness ==
    /\ Returned
    /\ ~ bm25 /\ DOMAIN documents_map /= {}
    /\ results /= <<>>
    /\ score_calls = 0

\* the position in the corpus of the document with this id
DocAt(id) == CHOOSE k \in DOMAIN documents : documents[k].id = id
\* the document's norm is zero
ZeroNorm(id) == index.doc_norms[DocAt(id)].sq = RZero
Positive(s) == RLt(RZero, Squared(s)) /\ RLt(RZero, s.dot)

(***************************************************************************)
(* C26: for a query with a token of the vocabulary, search returns exactly *)
(* min(top_k, corpus size) entries; a document whose norm is zero is       *)
(* scored and not dropped: its entry, when within the cut, has score 0.0   *)
(* and stands after every entry with a positive score, and with top_k at   *)
(* least the corpus size every document of the corpus has an entry.        *)
(***************************************************************************)
C26_ZeroNormKeptAndLast ==
    (Searched /\ KnownToken) =>
        /\ Len(probe.result) = Min(probe.top_k, Len(documents))
        /\ \A i \in DOMAIN probe.result :
              ZeroNorm(probe.result[i].id) =>
                 /\ probe.result[i].score = Score0
                 /\ Squared(probe.result[i].score) = RZero
                 /\ \A j \in DOMAIN probe.result :
                       Positive(probe.result[j].score) => j < i
        /\ probe.top_k >= Len(documents) =>
              { probe.result[i].id : i \in DOMAIN probe.result }
                 = { documents[k].id : k \in DOMAIN documents }

\* the corpus '!', 'x' searched for 'x' with top_k = 2: the document without
\* a token is first in the corpus and last in the result, with score 0.0
C26_Witness ==
    /\ Searched /\ KnownToken
    /\ Len(documents) = 2 /\ probe.top_k = 2
    /\ ZeroNorm(documents[1].id) /\ ~ ZeroNorm(documents[2].id)
    /\ Len(probe.result) = 2
    /\ probe.result[1].id = documents[2].id
    /\ Positive(probe.result[1].score)
    /\ probe.result[2].id = documents[1].id
    /\ probe.result[2].score = Score0

\* a hybrid_search call is under way or has ended
Called == pc \in {"query", "score", "done"}

(***************************************************************************)
(* C27: a hybrid_search call issues exactly one collection.query, for the  *)
(* query text, with n_results = 2 * limit and with `where` the translation *)
(* of the caller's filter: no entry for an absent or empty filter, the     *)
(* value itself for a scalar value, {"$in": elements} with the same        *)
(* elements in the same order for a list value; and the lexical branch     *)
(* applies its predicate to the caller's filter as given.                  *)
(***************************************************************************)
C27_OneQueryTwiceLimitTranslatedFilter ==
    /\ Called =>
          /\ Len(query_calls) = 1
          /\ query_calls[1].query_texts = <<query>>
          /\ query_calls[1].n_results = 2 * limit
          /\ IF filters.isNone
             THEN query_calls[1].where = EmptyMap
             ELSE /\ DOMAIN query_calls[1].where = DOMAIN filters.items
                  /\ \A key \in DOMAIN filters.items :
                        IF filters.items[key].k = "list"
                        THEN /\ query_calls[1].where[key].k = "in"
                             /\ query_calls[1].where[key].l = filters.items[key].l
                        ELSE query_calls[1].where[key] = filters.items[key]
    /\ Fused =>
          LexicalIds = { id \in DOMAIN documents_map :
                            _metadata_matches(documents_map[id].metadata, filters) }

\* a call with a list-valued filter and limit 2 has returned: one query, for
\* 4 results, with the $in entry; the lexical branch kept document b only
C27_Witness ==
    /\ Fused /\ outcome = "ok"
    /\ limit = 2
    /\ ~ filters.isNone /\ filters.items["type"].k = "list"
    /\ Len(query_calls) = 1
    /\ query_calls[1].n_results = 4
    /\ query_calls[1].status = "returned"
    /\ query_calls[1].where["type"] =
          [k |-> "in", l |-> <<StrV(<<"W","A","T">>), StrV(<<"x">>)>>]
    /\ LexicalIds = {"b"}

\* the messages appended to the session before position i that the memory
\* still held then
StoredBefore(s, i) ==
    LET before == SubSeq(AppendedMessages(s), 1, i - 1)
    IN  LastN(before, Min(max_messages, Len(before)))

(***************************************************************************)
(* C28: under concurrent generate_reply calls for one session, the         *)
(* messages of the session are request pairs: a user message that is not   *)
(* the last one is followed at once by the assistant message of the same   *)
(* call, in what was appended and in the history kept; and a call that has *)
(* replied read, for its prompt, every message the memory held before the  *)
(* call's own pair.                                                        *)
(***************************************************************************)
C28_HistoryIsRequestPairs ==
    /\ \A s \in DOMAIN appended :
          \A i \in DOMAIN appended[s] :
             (appended[s][i].message.role = "user" /\ i < Len(appended[s])) =>
                /\ appended[s][i + 1].message.role = "assistant"
                /\ appended[s][i + 1].by = appended[s][i].by
    /\ \A s \in DOMAIN _messages :
          \A i \in DOMAIN _messages[s] :
             (_messages[s][i].role = "user" /\ i < Len(_messages[s])) =>
                _messages[s][i + 1].role = "assistant"
    /\ \A t \in Threads :
          Replied(t) =>
             LET s == threads[t].session
                 own == AppendedBy(CallOf(t), s)
                 first == CHOOSE i \in own : \A j \in own : i <= j
             IN  \A m \in Range(StoredBefore(s, first)) :
                    m \in Range(threads[t].history)

\* what holds instead: each call appends its user message before its
\* assistant message, and a call's prompt is built from the history as it
\* was when the call read it
C28_OwnOrderOnly ==
    \A t \in Threads :
       Replied(t) =>
          LET s == threads[t].session
              own == AppendedBy(CallOf(t), s)
          IN  /\ Cardinality(own) = 2
              /\ \A i, j \in own :
                    i < j => /\ appended[s][i].message.role = "user"
                             /\ appended[s][j].message.role = "assistant"

\* thread t is in a generate_reply call that the message check let through
Generating(t) == threads[t].op = "generate_reply" /\ ~ Blank(threads[t].message)
\* the call of thread t has appended nothing to any session
NothingAppended(t) == \A s \in Sessions : AppendedBy(CallOf(t), s) = {}
\* the tool that can raise gave no context: it raised
RetrievalRaised(t) == <<"c","A">> \notin Range(threads[t].tool_contexts)

(***************************************************************************)
(* C29: a generate_reply call appends nothing before its LLM call has      *)
(* returned; when the LLM raises, the call ends with that error and has    *)
(* appended nothing, and the step in which it raises changes no history.   *)
(* Every tool is called whether or not an earlier one raised, and a call   *)
(* in which a tool raised still gets its reply and stores its pair.        *)
(***************************************************************************)
C29_MemoryOnlyAfterLLM ==
    /\ [](\A t \in Threads :
             /\ (Generating(t) /\ threads[t].pc \in {"get", "tools", "llm"})
                   => NothingAppended(t)
             /\ (Generating(t) /\ threads[t].pc = "returned" /\ threads[t].returned.raised)
                   => /\ threads[t].returned = Raise("RuntimeError")
                      /\ threads[t].llm_calls = 1
                      /\ threads[t].tool_calls = Len(Tools)
                      /\ NothingAppended(t)
             /\ (Generating(t) /\ threads[t].pc \in {"llm", "append_user",
                                                       "append_assistant", "returned"})
                   => threads[t].tool_calls = Len(Tools)
             /\ (Replied(t) /\ RetrievalRaised(t))
                   => /\ Cardinality(AppendedBy(CallOf(t), threads[t].session)) = 2
                      /\ threads[t].llm_calls = 1
                      /\ threads[t].returned.v.reply =
                            FormattedReply(threads[t].reply_text, threads[t].citations))
    /\ [][\A t \in Threads :
             (threads[t].pc \in {"idle", "get", "tools", "llm"}
                /\ threads'[t] /= threads[t])
                => (_messages' = _messages /\ appended' = appended)]_vars

\* the LLM raised in a call whose session already had a stored pair: the
\* pair is all the session holds
C29_Witness ==
    /\ Generating("t2")
    /\ threads["t2"].pc = "returned"
    /\ threads["t2"].returned = Raise("RuntimeError")
    /\ threads["t2"].session = "s1"
    /\ Len(History("s1")) = 2
    /\ NothingAppended("t2")
    /\ Replied("t1") /\ threads["t1"].session = "s1"
    /\ RetrievalRaised("t1")
    /\ threads["t1"].tool_contexts = << <<"c","B">> >>
    /\ History("s1")[2] = MemoryMessage("assistant", Reply, << <<"d","2">>, <<"d","3">> >>)

(***************************************************************************)
(* Chunking (data_pipeline/build_kb.py): chunk_documents as its two loops, *)
(* one step per iteration.  The words of a generated text are distinct, so *)
(* that a chunk's text tells which words it holds.                         *)
(***************************************************************************)
MaxWords == 4
MaxChunkSize == 3
MaxOverlap == 3
MaxChunkDocs == 2

RECURSIVE SplitFrom(_, _, _, _)
\* str.split(): the maximal runs of characters that are not whitespace
SplitFrom(s, i, cur, acc) ==
    IF i > Len(s)
    THEN IF cur = <<>> THEN acc ELSE Append(acc, cur)
    ELSE IF IsSpace(s[i])
         THEN SplitFrom(s, i + 1, <<>>, IF cur = <<>> THEN acc ELSE Append(acc, cur))
         ELSE SplitFrom(s, i + 1, Append(cur, s[i]), acc)
Split(s) == SplitFrom(s, 1, <<>>, <<>>)

NoneV == [k |-> "none"]

\* _clean_metadata: None values dropped, lists joined with ", "
_clean_metadata(metadata) ==
    [key \in { k \in DOMAIN metadata : metadata[k].k /= "none" } |->
        IF metadata[key].k = "list"
        THEN StrV(Join(<<",", " ">>,
                       [i \in DOMAIN metadata[key].l |-> Str(metadata[key].l[i])]))
        ELSE metadata[key]]

\* a variant without the fallback for chunk_overlap = chunk_size
Step_zero_when_equal(chunk_size, chunk_overlap) ==
    IF chunk_size >= chunk_overlap THEN chunk_size - chunk_overlap ELSE chunk_size

\* line 532
Step(chunk_size, chunk_overlap) ==
    IF chunk_size > chunk_overlap THEN chunk_size - chunk_overlap ELSE chunk_size

\* words[start : start + chunk_size] for start >= 0
WordSlice(words, start, chunk_size) ==
    SubSeq(words, start + 1, Min(start + chunk_size, Len(words)))

\* lines 534-545: the chunk appended in one iteration of the while loop
DocumentChunk(document, words, start, chunk_index, chunk_size) ==
    [id |-> document.id \o <<"-">> \o Digits(chunk_index),
     text |-> Join(<<" ">>, WordSlice(words, start, chunk_size)),
     metadata |-> _clean_metadata(
                     [key \in DOMAIN document.metadata \cup {"chunk_index"} |->
                         IF key = "chunk_index" THEN IntV(chunk_index)
                         ELSE document.metadata[key]])]

RECURSIVE ChunkText(_)
\* texts of 0..MaxWords words: blank, or the first letters set apart by one
\* or two spaces, with a space in front and a newline at the end
ChunkText(n) ==
    IF n = 0 THEN <<" ">>
    ELSE SubSeq(ChunkText(n - 1), 1, Len(ChunkText(n - 1)) - (IF n = 1 THEN 0 ELSE 1))
            \o (IF n % 2 = 0 THEN <<" ", " ">> ELSE <<>>)
            \o (IF n = 1 THEN <<>> ELSE <<" ">>)
            \o <<LowerChars[n], "\n">>
ChunkTexts == { <<>> } \cup { ChunkText(n) : n \in 0..MaxWords }
ChunkSizes == 1..MaxChunkSize
ChunkOverlaps == 0..MaxOverlap

\* a DocumentRecord; its metadata went through _clean_metadata when built
DocumentRecord(i, text) ==
    [id |-> <<"d">> \o Digits(i), text |-> text,
     metadata |-> ("entity_type" :> StrV(<<"m","o","v","e">>))]
DocumentLists ==
    UNION { { [i \in 1..n |-> DocumentRecord(i, texts[i])] : texts \in [1..n -> ChunkTexts] }
            : n \in 0..MaxChunkDocs }

InitChunk ==
    /\ probe = NoProbe
    /\ documents_map = EmptyMap /\ bm25 = FALSE /\ bm25_ids = <<>>
    /\ NoCall
    /\ NoIndex /\ NoService

\* chunk_documents is called: line 526
chunk_documents ==
    /\ pc = "idle"
    /\ \E docs \in DocumentLists, chunk_size \in ChunkSizes, chunk_overlap \in ChunkOverlaps :
          probe' = [documents |-> docs, chunk_size |-> chunk_size,
                    chunk_overlap |-> chunk_overlap,
                    at |-> "for", d |-> 0, words |-> <<>>,
                    start |-> 0, index |-> 0, step |-> 0, chunks |-> <<>>]
    /\ pc' = "chunking"
    /\ UNCHANGED besides_probe

\* one turn of `for document in documents`, lines 527-532, or the return
chunk_for ==
    /\ pc = "chunking" /\ probe.at = "for"
    /\ IF probe.d = Len(probe.documents)
       THEN /\ pc' = "chunked"
            /\ probe' = [probe EXCEPT !.at = "return"]
       ELSE /\ pc' = pc
            /\ LET words == Split(probe.documents[probe.d + 1].text)
               IN  probe' = [probe EXCEPT
                                !.d = @ + 1,
                                !.words = words,
                                !.start = 0,
                                !.index = 0,
                                !.step = IF words = <<>> THEN probe.step
                                         ELSE Step(probe.chunk_size, probe.chunk_overlap),
                                !.at = IF words = <<>> THEN "for" ELSE "while"]
    /\ UNCHANGED besides_probe

\* one turn of `while start < len(words)`, lines 533-546
chunk_while ==
    /\ pc = "chunking" /\ probe.at = "while"
    /\ IF probe.start < Len(probe.words)
       THEN probe' = [probe EXCEPT
                         !.chunks = Append(@, DocumentChunk(probe.documents[probe.d],
                                                            probe.words, probe.start,
                                                            probe.index, probe.chunk_size)),
                         !.index = @ + 1,
                         !.start = @ + probe.step]
       ELSE probe' = [probe EXCEPT !.at = "for"]
    /\ pc' = pc
    /\ UNCHANGED besides_probe

NextChunk ==
    \/ chunk_documents
    \/ chunk_for
    \/ chunk_while
    \/ call_ends

\* the interpreter runs the loops on: a turn that can be taken is taken
SpecChunk ==
    InitChunk /\ [][NextChunk]_vars /\ WF_vars(chunk_for) /\ WF_vars(chunk_while)

Chunking == pc = "chunking"
Chunked == pc = "chunked"
\* the chunks made so far of the document at position k, in order
ChunksOf(k) ==
    SelectSeq(probe.chunks,
              LAMBDA c : SubSeq(c.id, 1, Len(probe.documents[k].id) + 1)
                            = probe.documents[k].id \o <<"-">>)
\* the chunk's text is the words i..j of the document, joined by one space
HoldsWords(c, words, i, j) == c.text = Join(<<" ">>, SubSeq(words, i, j))

(***************************************************************************)
(* C30: for every list of documents, chunk_size >= 1 and chunk_overlap     *)
(* >= 0, chunk_documents returns.  While it runs and when it has returned, *)
(* the chunks of a document are numbered 0, 1, 2, ... in order, in their   *)
(* ids and in chunk_index, each is 1 to chunk_size consecutive words of    *)
(* the document, and there are no more chunks than words; when it has      *)
(* returned, every word of every document is in one of its chunks.         *)
(***************************************************************************)
C30_ChunkingTerminatesAndCovers ==
    /\ Chunking ~> Chunked
    /\ [](Chunking \/ Chunked =>
            \A k \in DOMAIN probe.documents :
               LET words == Split(probe.documents[k].text)
                   cs == ChunksOf(k)
               IN  /\ Len(cs) <= Len(words)
                   /\ \A n \in DOMAIN cs :
                         /\ cs[n].id = probe.documents[k].id \o <<"-">> \o Digits(n - 1)
                         /\ cs[n].metadata["chunk_index"] = IntV(n - 1)
                         /\ \E i \in DOMAIN words :
                               \E j \in i..Min(i + probe.chunk_size - 1, Len(words)) :
                                  HoldsWords(cs[n], words, i, j)
                   /\ Chunked =>
                         \A p \in DOMAIN words :
                            \E n \in DOMAIN cs :
                               \E i \in 1..p : \E j \in p..Len(words) :
                                  /\ j - i + 1 <= probe.chunk_size
                                  /\ HoldsWords(cs[n], words, i, j))

\* chunk_overlap above chunk_size: four words in chunks of two, the step
\* falling back to two, give the chunks 'a b' and 'c d'
C30_Witness ==
    /\ Chunked
    /\ probe.chunk_size = 2 /\ probe.chunk_overlap = 3
    /\ Len(probe.documents) = 2
    /\ Split(probe.documents[1].text) = << <<"a">>, <<"b">>, <<"c">>, <<"d">> >>
    /\ Split(probe.documents[2].text) = <<>>
    /\ Len(probe.chunks) = 2
    /\ probe.chunks[1].text = <<"a"," ","b">>
    /\ probe.chunks[2].text = <<"c"," ","d">>
    /\ probe.chunks[2].id = <<"d","1","-","1">>

====
